---- MODULE Spec2Model ----
(***************************************************************************)
(* Session phase state machine and alert synchronisation of the SWSC       *)
(* study-companion firmware.  The repository holds several firmware        *)
(* images; each is modelled from its own source:                           *)
(*   "oled"  src/src/swsc_esp32/swsc_esp32.ino  lines 1-522                *)
(*   "fixed" src/unnamed/part_001               (v2.0, local timers)       *)
(*   "mini"  src/unnamed/part_000               (minimal image)            *)
(*   "fe"    src/src/swsc_esp32.ino             (FE image, no OLED)        *)
(* The variable fw says which image runs.  One loop() iteration is two     *)
(* steps: the transport step (reconnect / mqtt.loop() with at most one     *)
(* inbound message handled by the callback) and the body step (the rest    *)
(* of loop()); pc = "wait" is the device inside the retry loop of a        *)
(* blocking connect.  Display rendering and the buzzer are outside the     *)
(* modelled                                                                *)
(* state, and so is the LED colour of the v2.0 image.  delay() calls       *)
(* inside handlers are shorter than the clock quantum and do not move the  *)
(* clock.                                                                  *)
(***************************************************************************)
EXTENDS Integers, Sequences, FiniteSets, TLC

VARIABLES fw, clock, pc, ticked, msg, out, oled, fixed, mini, fe

vars == <<fw, clock, pc, ticked, msg, out, oled, fixed, mini, fe>>

\* ------------------------------------------------------------------ bounds

\* Number of clock quanta the model lets pass, per image.
MaxTicksOled == 2
MaxTicksFixed == 5

\* Milliseconds by which the clock may run ahead of the quantum grid (time
\* passing inside a loop() iteration).
MaxSkew == 1

\* Quanta of the long-session facet of the v2.0 image (the water interval
\* of 30 minutes must elapse inside a session).
MaxTicksTimers == 7

MaxTicks(f) ==
    IF f = "fixed" THEN MaxTicksFixed ELSE MaxTicksOled

\* One clock quantum in milliseconds (five minutes: the scenario values
\* 25/20/5 and the water interval 30 are multiples of it).
TickMs == 5 * 60000

\* ------------------------------------------------------- strings (Arduino)
\* A payload is a sequence of one-character strings; a topic is its sequence
\* of path segments.

IsDigit(c) ==
    c \in {"0", "1", "2", "3", "4", "5", "6", "7", "8", "9"}

DigitVal(c) ==
    CASE c = "0" -> 0 [] c = "1" -> 1 [] c = "2" -> 2 [] c = "3" -> 3
      [] c = "4" -> 4 [] c = "5" -> 5 [] c = "6" -> 6 [] c = "7" -> 7
      [] c = "8" -> 8 [] c = "9" -> 9

RECURSIVE ParseDigits(_, _, _)
ParseDigits(s, i, acc) ==
    IF i > Len(s) \/ ~IsDigit(s[i]) THEN acc
    ELSE ParseDigits(s, i + 1, acc * 10 + DigitVal(s[i]))

RECURSIVE SkipSpace(_, _)
SkipSpace(s, i) ==
    IF i <= Len(s) /\ s[i] = " " THEN SkipSpace(s, i + 1) ELSE i

\* String::toInt(): atol() of the buffer: leading blanks, an optional sign,
\* then the longest run of digits; 0 when there is none.
toInt(s) ==
    LET i == SkipSpace(s, 1)
    IN  IF i > Len(s) THEN 0
        ELSE IF s[i] = "-" THEN 0 - ParseDigits(s, i + 1, 0)
        ELSE IF s[i] = "+" THEN ParseDigits(s, i + 1, 0)
        ELSE ParseDigits(s, i, 0)

\* String::startsWith(prefix)
startsWith(s, p) ==
    /\ Len(s) >= Len(p)
    /\ \A i \in 1..Len(p) : s[i] = p[i]

\* String::substring(from): the characters from index `from` (0-based) on.
substring(s, from) ==
    IF from >= Len(s) THEN <<>> ELSE SubSeq(s, from + 1, Len(s))

LowerChar(c) ==
    CASE c = "O" -> "o" [] c = "N" -> "n" [] c = "F" -> "f" [] c = "T" -> "t"
      [] c = "R" -> "r" [] c = "U" -> "u" [] c = "E" -> "e"
      [] OTHER -> c

\* String::toLowerCase()
toLowerCase(s) ==
    [i \in 1..Len(s) |-> LowerChar(s[i])]

\* payload literals
P_START == <<"S", "T", "A", "R", "T">>
P_STOP == <<"S", "T", "O", "P">>
P_RESET == <<"R", "E", "S", "E", "T">>
P_END == <<"E", "N", "D">>
P_PING == <<"P", "I", "N", "G">>
P_on == <<"o", "n">>
P_true == <<"t", "r", "u", "e">>
P_one == <<"1">>

\* topic literals
TPC_CONFIG_DURATION == <<"swsc", "config", "duration">>
TPC_CONFIG_BREAK_INTERVAL == <<"swsc", "config", "break_interval">>
TPC_CONFIG_BREAK_LENGTH == <<"swsc", "config", "break_length">>
TPC_CONFIG_WATER_REM == <<"swsc", "config", "water_reminder">>
TPC_CONTROL_START == <<"swsc", "control", "start">>
TPC_CONTROL_STOP == <<"swsc", "control", "stop">>
TPC_CONTROL_RESET == <<"swsc", "control", "reset">>
TPC_ALERT_BREAK == <<"swsc", "alert", "break">>
TPC_ALERT_WATER == <<"swsc", "alert", "water">>

\* An inbound message, and "no message pending".
Msg(t, p) == [topic |-> t, payload |-> p]
NoMsg == [topic |-> <<>>, payload |-> <<>>]

\* An outbound publication.
Pub(t, p, r) == [topic |-> t, payload |-> p, retained |-> r]

\* ------------------------------------------------------------ inbound sets

DurationPayloads ==
    { <<"2", "5">>, <<"0">>, <<"-", "5">>, <<"a", "b", "c">> }

WaterRemPayloads ==
    { P_on, <<"O", "N">>, <<"o", "f", "f">>, P_one }

BreakPayloads ==
    { P_START, P_END, <<"s", "t", "a", "r", "t">> }

\* START:<id> / STOP:<id> for ids inside and outside [0, 32), PING:<ids>,
\* and a payload without the colon.
WaterIdTexts ==
    { <<"0">>, <<"3", "1">>, <<"3", "2">>, <<"9", "9">>, <<"-", "1">> }

WaterPayloads ==
    { P_START \o <<":">> \o t : t \in WaterIdTexts }
      \cup { P_STOP \o <<":">> \o t : t \in WaterIdTexts }
      \cup { P_PING \o <<":", "0", ",", "1">>, P_START }

ControlMsgs ==
    { Msg(TPC_CONTROL_START, P_START), Msg(TPC_CONTROL_START, <<>>),
      Msg(TPC_CONTROL_STOP, P_STOP), Msg(TPC_CONTROL_RESET, P_RESET) }

\* The messages offered to the OLED image (it also hears its own status
\* publications: it subscribes to swsc/status/#).
OledInbound ==
    { Msg(TPC_CONFIG_DURATION, p) : p \in DurationPayloads }
      \cup { Msg(TPC_CONFIG_BREAK_INTERVAL, p) : p \in {<<"0">>, <<"-", "5">>} }
      \cup { Msg(TPC_CONFIG_BREAK_LENGTH, p) : p \in {<<"5">>, <<"-", "5">>} }
      \cup { Msg(TPC_CONFIG_WATER_REM, p) : p \in WaterRemPayloads }
      \cup ControlMsgs
      \cup { Msg(TPC_ALERT_BREAK, p) : p \in BreakPayloads }
      \cup { Msg(TPC_ALERT_WATER, p) : p \in WaterPayloads }
      \cup { Msg(<<"swsc", "status", "system">>, <<"x">>) }

\* ------------------------------------------------- OLED image: state, init

MAX_WATER_ALARMS == 32

OledInit ==
    [ cfg_duration_min |-> 0, cfg_break_interval_min |-> 0,
      cfg_break_length_min |-> 0, cfg_water_on |-> FALSE,
      cfg_received_any |-> FALSE, cfg_ready |-> FALSE,
      led_state |-> FALSE, session_running |-> FALSE, in_break |-> FALSE,
      session_stopped |-> FALSE,
      water_active |-> [i \in 0..(MAX_WATER_ALARMS - 1) |-> FALSE],
      memFault |-> FALSE,
      lastSensorMs |-> 0, lastBuzzMs |-> 0, lastBlinkMs |-> 0,
      led |-> <<FALSE, FALSE, FALSE>>, connected |-> TRUE,
      subs |-> {"swsc/config/#", "swsc/control/#", "swsc/alert/#",
                "swsc/status/#", "swsc/data/#"} ]

\* A machine threaded through the handlers: the image's globals, the
\* publications made so far in this step, and what millis() returns.
Mach(st, o, ms) == [st |-> st, out |-> o, ms |-> ms]

O_ledColor(m, r, g, b) ==
    [m EXCEPT !.st.led = <<r # 0, g # 0, b # 0>>]

O_publishStatus(m, s) ==
    [m EXCEPT !.out = Append(@, Pub("swsc/status/system", s, TRUE))]

\* ------------------------------------------------------ OLED image: config

O_cfgReady(st) ==
    /\ st.cfg_duration_min > 0
    /\ st.cfg_break_interval_min >= 0
    /\ st.cfg_break_length_min >= 0

\* parseConfig() that also clears the break and stopped flags when it
\* announces Ready.
O_parseConfig_ClearsPhase(m, topic, payload) ==
    LET s0 == m.st
        s1 == IF topic = TPC_CONFIG_DURATION
                THEN [s0 EXCEPT !.cfg_duration_min = toInt(payload),
                                !.cfg_received_any = TRUE]
              ELSE IF topic = TPC_CONFIG_BREAK_INTERVAL
                THEN [s0 EXCEPT !.cfg_break_interval_min = toInt(payload),
                                !.cfg_received_any = TRUE]
              ELSE IF topic = TPC_CONFIG_BREAK_LENGTH
                THEN [s0 EXCEPT !.cfg_break_length_min = toInt(payload),
                                !.cfg_received_any = TRUE]
              ELSE IF topic = TPC_CONFIG_WATER_REM
                THEN LET v == toLowerCase(payload)
                     IN  [s0 EXCEPT !.cfg_water_on = (v = P_on \/ v = P_true
                                                       \/ v = P_one),
                                    !.cfg_received_any = TRUE]
              ELSE s0
        s2 == [s1 EXCEPT !.cfg_ready = O_cfgReady(s1)]
        m2 == [m EXCEPT !.st = s2]
    IN  IF s2.cfg_ready /\ ~s2.session_running
          THEN O_publishStatus(
                 O_ledColor([m2 EXCEPT !.st.in_break = FALSE,
                                       !.st.session_stopped = FALSE],
                            0, 255, 0),
                 "Ready")
          ELSE m2

O_parseConfig(m, topic, payload) ==
    LET s0 == m.st
        s1 == IF topic = TPC_CONFIG_DURATION
                THEN [s0 EXCEPT !.cfg_duration_min = toInt(payload),
                                !.cfg_received_any = TRUE]
              ELSE IF topic = TPC_CONFIG_BREAK_INTERVAL
                THEN [s0 EXCEPT !.cfg_break_interval_min = toInt(payload),
                                !.cfg_received_any = TRUE]
              ELSE IF topic = TPC_CONFIG_BREAK_LENGTH
                THEN [s0 EXCEPT !.cfg_break_length_min = toInt(payload),
                                !.cfg_received_any = TRUE]
              ELSE IF topic = TPC_CONFIG_WATER_REM
                THEN LET v == toLowerCase(payload)
                     IN  [s0 EXCEPT !.cfg_water_on = (v = P_on \/ v = P_true
                                                       \/ v = P_one),
                                    !.cfg_received_any = TRUE]
              ELSE s0
        s2 == [s1 EXCEPT !.cfg_ready = O_cfgReady(s1)]
        m2 == [m EXCEPT !.st = s2]
    IN  IF s2.cfg_ready /\ ~s2.session_running
          THEN O_publishStatus(O_ledColor(m2, 0, 255, 0), "Ready")
          ELSE m2

\* ------------------------------------------------------ OLED image: alerts

O_resetWaterAlarms(m) ==
    [m EXCEPT !.st.water_active = [i \in 0..(MAX_WATER_ALARMS - 1) |-> FALSE]]

O_handleAlertBreak(m, p) ==
    IF p = P_START
      THEN O_publishStatus([m EXCEPT !.st.in_break = TRUE], "Break")
    ELSE IF p = P_END
      THEN O_publishStatus([m EXCEPT !.st.in_break = FALSE], "Running")
    ELSE m

\* water_active[id] = v.  A write outside the array is undefined behaviour:
\* it lands on whatever lies next to the array; memFault records that it
\* happened.
O_waterWrite(m, id, v) ==
    IF id \in 0..(MAX_WATER_ALARMS - 1)
      THEN [m EXCEPT !.st.water_active[id] = v]
      ELSE [m EXCEPT !.st.memFault = TRUE]

\* handleAlertWater() with STOP:<id> silencing every alarm.
O_handleAlertWater_StopAll(m, p) ==
    IF startsWith(p, P_START \o <<":">>)
      THEN LET id == toInt(substring(p, 6))
           IN  IF id >= 0 /\ id < MAX_WATER_ALARMS
                 THEN O_waterWrite(m, id, TRUE)
                 ELSE m
    ELSE IF startsWith(p, P_STOP \o <<":">>)
      THEN O_resetWaterAlarms(m)
    ELSE m

\* handleAlertWater() without the upper bound of the range test.
O_handleAlertWater_NoUpperBound(m, p) ==
    IF startsWith(p, P_START \o <<":">>)
      THEN LET id == toInt(substring(p, 6))
           IN  IF id >= 0 THEN O_waterWrite(m, id, TRUE) ELSE m
    ELSE IF startsWith(p, P_STOP \o <<":">>)
      THEN LET id == toInt(substring(p, 5))
           IN  IF id >= 0 THEN O_waterWrite(m, id, FALSE) ELSE m
    ELSE m

O_handleAlertWater(m, p) ==
    IF startsWith(p, P_START \o <<":">>)
      THEN LET id == toInt(substring(p, 6))
           IN  IF id >= 0 /\ id < MAX_WATER_ALARMS
                 THEN O_waterWrite(m, id, TRUE)
                 ELSE m
    ELSE IF startsWith(p, P_STOP \o <<":">>)
      THEN LET id == toInt(substring(p, 5))
           IN  IF id >= 0 /\ id < MAX_WATER_ALARMS
                 THEN O_waterWrite(m, id, FALSE)
                 ELSE m
    ELSE m

\* ----------------------------------------------------- OLED image: control

\* handleControlStart() without the call of resetWaterAlarms().
O_handleControlStart_KeepAlarms(m) ==
    IF ~m.st.cfg_ready
      THEN O_ledColor(O_publishStatus(m, "Waiting for Config"), 0, 0, 255)
      ELSE O_publishStatus([m EXCEPT !.st.session_running = TRUE,
                                     !.st.session_stopped = FALSE,
                                     !.st.in_break = FALSE],
                           "Running")

\* handleControlStart() that leaves session_stopped as it finds it.
O_handleControlStart_KeepStopped(m) ==
    IF ~m.st.cfg_ready
      THEN O_ledColor(O_publishStatus(m, "Waiting for Config"), 0, 0, 255)
      ELSE O_publishStatus(
             O_resetWaterAlarms([m EXCEPT !.st.session_running = TRUE,
                                          !.st.in_break = FALSE]),
             "Running")

O_handleControlStart(m) ==
    IF ~m.st.cfg_ready
      THEN O_ledColor(O_publishStatus(m, "Waiting for Config"), 0, 0, 255)
      ELSE O_publishStatus(
             O_resetWaterAlarms([m EXCEPT !.st.session_running = TRUE,
                                          !.st.session_stopped = FALSE,
                                          !.st.in_break = FALSE]),
             "Running")

\* handleControlStop() without the call of resetWaterAlarms().
O_handleControlStop_KeepAlarms(m) ==
    O_publishStatus([m EXCEPT !.st.session_running = FALSE,
                              !.st.session_stopped = TRUE,
                              !.st.in_break = FALSE],
                    "Stopped")

O_handleControlStop(m) ==
    O_publishStatus(
      O_resetWaterAlarms([m EXCEPT !.st.session_running = FALSE,
                                   !.st.session_stopped = TRUE,
                                   !.st.in_break = FALSE]),
      "Stopped")

O_handleControlReset(m) ==
    LET m1 == O_resetWaterAlarms([m EXCEPT !.st.session_running = FALSE,
                                           !.st.session_stopped = FALSE,
                                           !.st.in_break = FALSE])
    IN  IF m1.st.cfg_ready THEN O_publishStatus(m1, "Ready")
        ELSE O_publishStatus(m1, "Waiting for Config")

\* strncmp(topic, "swsc/config/", 12) == 0
IsConfigTopic(topic) ==
    Len(topic) >= 3 /\ topic[1] = "swsc" /\ topic[2] = "config"

O_mqttCallback(m, topic, payload) ==
    IF IsConfigTopic(topic) THEN O_parseConfig(m, topic, payload)
    ELSE IF topic = TPC_CONTROL_START THEN O_handleControlStart(m)
    ELSE IF topic = TPC_CONTROL_STOP THEN O_handleControlStop(m)
    ELSE IF topic = TPC_CONTROL_RESET THEN O_handleControlReset(m)
    ELSE IF topic = TPC_ALERT_BREAK THEN O_handleAlertBreak(m, payload)
    ELSE IF topic = TPC_ALERT_WATER THEN O_handleAlertWater(m, payload)
    ELSE m

\* --------------------------------------------------- OLED image: transport

O_subscribeAll(m) ==
    [m EXCEPT !.st.subs = {"swsc/config/#", "swsc/control/#", "swsc/alert/#",
                           "swsc/status/#", "swsc/data/#"}]

\* connectMQTT() returns only once the broker accepted the connection.
O_connectMQTT(m) ==
    LET m1 == O_subscribeAll([m EXCEPT !.st.connected = TRUE])
        s == m1.st
    IN  IF ~s.cfg_ready THEN O_publishStatus(m1, "Waiting for Config")
        ELSE O_publishStatus(m1,
               IF s.session_running
                 THEN (IF s.in_break THEN "Break" ELSE "Running")
                 ELSE "Ready")

\* ------------------------------------------------- OLED image: sensor, LED

NaN == -1000

\* Sensor readings offered to the model, in tenths of a unit.
TempReadings == {NaN, 250}
HumReadings == {500}
LightReadings == {1}

RECURSIVE NatChars(_)
NatChars(n) ==
    LET d == <<"0", "1", "2", "3", "4", "5", "6", "7", "8", "9">>
    IN  IF n < 10 THEN <<d[n + 1]>> ELSE NatChars(n \div 10) \o <<d[(n % 10) + 1]>>

IntChars(n) ==
    IF n < 0 THEN <<"-">> \o NatChars(0 - n) ELSE NatChars(n)

\* dtostrf(x, 0, 1, buf) of a reading given in tenths
dtostrf1(x) ==
    IF x < 0 THEN <<"-">> \o NatChars((0 - x) \div 10) \o <<".">> \o NatChars((0 - x) % 10)
    ELSE NatChars(x \div 10) \o <<".">> \o NatChars(x % 10)

O_sampleAndPublishSensors(m, t, h, l) ==
    [m EXCEPT !.out = @ \o
        << Pub("swsc/data/temperature",
               IF t = NaN THEN <<"-">> ELSE dtostrf1(t), FALSE),
           Pub("swsc/data/humidity",
               IF h = NaN THEN <<"-">> ELSE dtostrf1(h), FALSE),
           Pub("swsc/data/light", IntChars(l), FALSE) >>]

O_anyWater(st) ==
    \E i \in 0..(MAX_WATER_ALARMS - 1) : st.water_active[i]

\* The status LED at the end of loop().
O_loopLed(m) ==
    LET s == m.st
    IN  IF O_anyWater(s) \/ s.session_stopped \/ s.in_break
          THEN (IF s.led_state THEN O_ledColor(m, 255, 0, 0)
                ELSE O_ledColor(m, 0, 0, 0))
        ELSE IF s.session_running
          THEN (IF s.led_state THEN O_ledColor(m, 0, 255, 0)
                ELSE O_ledColor(m, 0, 0, 0))
        ELSE IF s.cfg_ready
          THEN (IF s.led_state THEN O_ledColor(m, 0, 0, 255)
                ELSE O_ledColor(m, 0, 0, 0))
        ELSE O_ledColor(m, 0, 0, 255)

\* The status LED at the end of loop() in the v2.2 variant of the image
\* (same file, from line 523), whose handlers assign the flags as the
\* handlers above do.
O22_loopLed(m) ==
    LET s == m.st
    IN  IF ~s.cfg_ready THEN O_ledColor(m, 0, 0, 255)
        ELSE IF s.session_stopped THEN O_ledColor(m, 255, 0, 0)
        ELSE IF ~s.session_running THEN O_ledColor(m, 0, 255, 0)
        ELSE IF s.in_break THEN O_ledColor(m, 255, 255, 0)
        ELSE O_ledColor(m, 0, 255, 0)

\* The rest of loop() after mqtt.loop(): sensor cadence, water beep cadence,
\* blink bit, status LED.
O_loopBody(m, now, t, h, l) ==
    LET s0 == m.st
        m1 == IF now - s0.lastSensorMs >= 2000
                THEN LET ma == [m EXCEPT !.st.lastSensorMs = now]
                     IN  IF ~s0.session_stopped
                           THEN O_sampleAndPublishSensors(ma, t, h, l)
                           ELSE ma
                ELSE m
        anyWater == O_anyWater(m1.st)
        m2 == IF anyWater /\ now - m1.st.lastBuzzMs >= 2500
                THEN [m1 EXCEPT !.st.lastBuzzMs = now]
                ELSE m1
        m3 == IF now - m2.st.lastBlinkMs >= 500
                THEN [m2 EXCEPT !.st.lastBlinkMs = now,
                                !.st.led_state = ~m2.st.led_state]
                ELSE m2
    IN  O_loopLed(m3)

\* ---------------------------------------------------------- OLED: actions

\* loop() up to and including mqtt.loop(): reconnect if needed, then the
\* callback for at most one pending inbound message.
O_LoopIO ==
    /\ fw = "oled" /\ pc \in {"io", "wait"}
    /\ \E x \in OledInbound \cup {NoMsg} :
         LET m0 == Mach(oled, <<>>, clock)
             m1 == IF ~oled.connected THEN O_connectMQTT(m0) ELSE m0
             m2 == IF x # NoMsg THEN O_mqttCallback(m1, x.topic, x.payload)
                   ELSE m1
         IN  /\ oled' = m2.st
             /\ out' = m2.out
             /\ msg' = x
    /\ pc' = "body"
    /\ UNCHANGED <<fw, clock, ticked, fixed, mini, fe>>

O_LoopBody ==
    /\ fw = "oled" /\ pc = "body"
    /\ \E t \in TempReadings, h \in HumReadings, l \in LightReadings :
         LET m1 == O_loopBody(Mach(oled, <<>>, clock), clock, t, h, l)
         IN  /\ oled' = m1.st
             /\ out' = m1.out
    /\ pc' = "io"
    /\ ticked' = FALSE
    /\ msg' = NoMsg
    /\ UNCHANGED <<fw, clock, fixed, mini, fe>>

\* connectMQTT() called by loop(): the broker refuses the connection and
\* the device stays in the retry loop of connectMQTT() (pc = "wait") until
\* an attempt succeeds, which O_LoopIO continues from.
O_ConnectRefused ==
    /\ fw = "oled" /\ pc = "io" /\ ~oled.connected
    /\ pc' = "wait"
    /\ UNCHANGED <<fw, clock, ticked, msg, out, oled, fixed, mini, fe>>

\* The broker connection drops.
O_Disconnect ==
    /\ fw = "oled" /\ pc = "io" /\ oled.connected
    /\ oled' = [oled EXCEPT !.connected = FALSE, !.subs = {}]
    /\ UNCHANGED <<fw, clock, pc, ticked, msg, out, fixed, mini, fe>>

\* ------------------------------------------------ v2.0 image: state, init

\* Thresholds in tenths of a degree / percent, and lux.
TEMP_MIN == 200
TEMP_MAX == 300
HUM_MIN == 400
HUM_MAX == 700
LIGHT_MIN == 200
LIGHT_MAX == 800

SENSOR_READ_INTERVAL == 5000
MQTT_PUBLISH_INTERVAL == 5000
MQTT_RECONNECT_INTERVAL == 5000
LED_BLINK_INTERVAL == 500

\* struct SystemState state, the timing trackers and the buzzer state, as
\* their initialisers leave them; `now` is loop()'s local.
FixedBoot ==
    [ active |-> FALSE, configReady |-> FALSE, onBreak |-> FALSE,
      waterReminderEnabled |-> TRUE,
      studyDuration |-> 0, breakInterval |-> 0, breakLength |-> 5,
      waterInterval |-> 30,
      startTime |-> 0, intervalStartTime |-> 0, lastWaterCheck |-> 0,
      temperature |-> 0, humidity |-> 0, lightValue |-> 0,
      environmentStatus |-> "Idle", currentPhase |-> "Idle",
      lastSensorRead |-> 0, lastMqttPublish |-> 0, lastMqttReconnect |-> 0,
      lastLedBlink |-> 0, ledBlinkState |-> FALSE,
      connected |-> FALSE, subs |-> {}, now |-> 0 ]

\* mqtt.publish(): nothing leaves the device while the client is not
\* connected.
F_publish(m, topic, payload, retained) ==
    IF m.st.connected THEN [m EXCEPT !.out = Append(@, Pub(topic, payload, retained))]
    ELSE m

F_publishStatus(m, s) ==
    F_publish(m, "swsc/status/system", s, TRUE)

\* The LED colour and the buzzer (ledColor, startBuzzer, updateBuzzer,
\* tone) are outputs only; they are not part of the modelled state, so
\* triggerBreakAlert(), triggerWaterAlert() and stopWaterAlert(), which
\* touch nothing else, leave the machine as it is.

F_triggerBreakAlert(m) ==
    m

F_triggerWaterAlert(m) ==
    m

F_stopWaterAlert(m) ==
    m

\* The buzzer of the v2.0 image, kept apart from the session state: the
\* three globals buzzerActive, buzzerStartTime and buzzerDuration.  It is
\* the only record this image keeps of a water alarm being raised.
BuzzerBoot ==
    [ buzzerActive |-> FALSE, buzzerStartTime |-> 0, buzzerDuration |-> 0 ]

startBuzzer(b, ms, durationMs) ==
    [ buzzerActive |-> TRUE, buzzerStartTime |-> ms,
      buzzerDuration |-> durationMs ]

updateBuzzer(b, ms) ==
    IF b.buzzerActive /\ ms - b.buzzerStartTime >= b.buzzerDuration
      THEN [b EXCEPT !.buzzerActive = FALSE]
      ELSE b

\* swsc/alert/water START or PING from the server: one beep of a second
\* unless the buzzer already sounds.
F_waterAlertBuzzer(b, ms) ==
    IF ~b.buzzerActive THEN startBuzzer(b, ms, 1000) ELSE b

\* stopWaterAlert(): the buzzer is silenced.
F_stopWaterAlertBuzzer(b) ==
    [b EXCEPT !.buzzerActive = FALSE]

\* A local reminder that silences the buzzer instead of sounding it.
F_triggerWaterAlertBuzzer_Silences(b, ms) ==
    F_stopWaterAlertBuzzer(b)

\* triggerWaterAlert(): three beeps of 150 ms, 200 ms apart.
F_triggerWaterAlertBuzzer(b, ms) ==
    startBuzzer(startBuzzer(startBuzzer(b, ms, 150), ms + 200, 150),
                ms + 400, 150)

\* ----------------------------------------------------- v2.0 image: control

\* startSystem() that leaves onBreak as it finds it.
F_startSystem_KeepBreak(m) ==
    IF ~m.st.configReady \/ m.st.studyDuration = 0
      THEN F_publishStatus(m, "config_error")
      ELSE F_publishStatus(
             [m EXCEPT !.st.active = TRUE,
                       !.st.startTime = m.ms,
                       !.st.intervalStartTime = m.ms,
                       !.st.lastWaterCheck = m.ms,
                       !.st.currentPhase = "Study"],
             "active")

F_startSystem(m) ==
    IF ~m.st.configReady \/ m.st.studyDuration = 0
      THEN F_publishStatus(m, "config_error")
      ELSE F_publishStatus(
             [m EXCEPT !.st.active = TRUE,
                       !.st.onBreak = FALSE,
                       !.st.startTime = m.ms,
                       !.st.intervalStartTime = m.ms,
                       !.st.lastWaterCheck = m.ms,
                       !.st.currentPhase = "Study"],
             "active")

F_stopSystem(m) ==
    F_publishStatus([m EXCEPT !.st.active = FALSE,
                              !.st.onBreak = FALSE,
                              !.st.currentPhase = "Idle"],
                    "stopped")

\* setup() after a power-on or ESP.restart(): one connection attempt, which
\* the broker accepts (ok) or not.
F_reconnectOnce(m, ok) ==
    IF m.st.connected THEN m
    ELSE IF ok
      THEN F_publishStatus(
             [m EXCEPT !.st.connected = TRUE,
                       !.st.subs = {"swsc/config/#", "swsc/control/#",
                                    "swsc/alert/#"}],
             "ready")
    ELSE m

F_setup(ok) ==
    F_reconnectOnce(Mach(FixedBoot, <<>>, 0), ok)

\* resetSystem(): publish, then ESP.restart(): the device boots again.
F_resetSystem(m, ok) ==
    LET m1 == F_publishStatus(m, "resetting")
        m2 == F_setup(ok)
    IN  [m2 EXCEPT !.out = m1.out \o m2.out]

\* topic.startsWith("swsc/alert/water")
IsWaterTopic(topic) ==
    Len(topic) >= 3 /\ SubSeq(topic, 1, 3) = TPC_ALERT_WATER

F_handleMQTTMessage(m, topic, payload, ok) ==
    IF topic = TPC_CONFIG_DURATION
      THEN [m EXCEPT !.st.studyDuration = toInt(payload),
                     !.st.configReady = TRUE]
    ELSE IF topic = TPC_CONFIG_BREAK_INTERVAL
      THEN [m EXCEPT !.st.breakInterval = toInt(payload)]
    ELSE IF topic = TPC_CONFIG_BREAK_LENGTH
      THEN [m EXCEPT !.st.breakLength = toInt(payload)]
    ELSE IF topic = TPC_CONFIG_WATER_REM
      THEN [m EXCEPT !.st.waterReminderEnabled = (payload = P_on)]
    ELSE IF topic = TPC_CONTROL_START
      THEN (IF payload = P_START THEN F_startSystem(m) ELSE m)
    ELSE IF topic = TPC_CONTROL_STOP
      THEN (IF payload = P_STOP THEN F_stopSystem(m) ELSE m)
    ELSE IF topic = TPC_CONTROL_RESET
      THEN (IF payload = P_RESET THEN F_resetSystem(m, ok) ELSE m)
    ELSE IF IsWaterTopic(topic)
      THEN (IF startsWith(payload, P_START) \/ startsWith(payload, P_PING)
              THEN m
            ELSE IF startsWith(payload, P_STOP) THEN F_stopWaterAlert(m)
            ELSE m)
    ELSE IF topic = TPC_ALERT_BREAK
      THEN (IF payload = P_START THEN F_triggerBreakAlert(m)
            ELSE m)
    ELSE m

\* ------------------------------------------- v2.0 image: unsigned minutes

\* 2^32 \div 60000 and 2^32 % 60000, written with numbers that fit the
\* checker's integers.
U32Minutes == 2147483647 \div 30000
U32MinuteRest == 2 * ((2147483647 % 30000) + 1)

\* (a - b) / 60000 on unsigned long (32 bits): the difference wraps when
\* b is later than a.
UMinutes(a, b) ==
    IF a >= b THEN (a - b) \div 60000
    ELSE U32Minutes + ((U32MinuteRest - (b - a)) \div 60000)

\* u >= i for an unsigned long u below 2^31 and an int i: i is converted to
\* unsigned, so a negative i is above every such u.
UGeInt(u, i) ==
    IF i < 0 THEN FALSE ELSE u >= i

\* ------------------------------------------- v2.0 image: sensors, timers

\* map(x, 0, 4095, 0, 1000)
MapLdr(x) ==
    (x * 1000) \div 4095

F_readSensors(m, t, h, ldrRaw) ==
    LET m1 == IF t # NaN /\ h # NaN
                THEN [m EXCEPT !.st.temperature = t, !.st.humidity = h]
                ELSE m
    IN  [m1 EXCEPT !.st.lightValue = MapLdr(ldrRaw)]

F_envLabel(s) ==
    IF s.temperature > TEMP_MAX THEN "Too Hot"
    ELSE IF s.temperature < TEMP_MIN THEN "Too Cold"
    ELSE IF s.humidity > HUM_MAX THEN "Too Humid"
    ELSE IF s.humidity < HUM_MIN THEN "Too Dry"
    ELSE IF s.lightValue < LIGHT_MIN THEN "Too Dark"
    ELSE IF s.lightValue > LIGHT_MAX THEN "Too Bright"
    ELSE "Ideal"

F_checkEnvironment(m) ==
    LET oldStatus == m.st.environmentStatus
        m1 == [m EXCEPT !.st.environmentStatus = F_envLabel(m.st)]
    IN  IF m1.st.environmentStatus # oldStatus
          THEN F_publish(m1, "swsc/alert/environment",
                         m1.st.environmentStatus, TRUE)
          ELSE m1

\* checkTimers() without the restart of the phase clock when a break
\* begins.
F_checkTimers_KeepClock(m) ==
    IF ~m.st.active THEN m
    ELSE
      LET now == m.ms
          intervalElapsed == UMinutes(now, m.st.intervalStartTime)
      IN  IF ~m.st.onBreak
            THEN IF m.st.breakInterval > 0
                    /\ UGeInt(intervalElapsed, m.st.breakInterval)
                   THEN F_publish(
                          F_triggerBreakAlert(
                            [m EXCEPT !.st.onBreak = TRUE,
                                      !.st.currentPhase = "Break"]),
                          "swsc/alert/break", "START", TRUE)
                   ELSE m
            ELSE IF UGeInt(intervalElapsed, m.st.breakLength)
                   THEN F_publish(
                          [m EXCEPT !.st.onBreak = FALSE,
                                    !.st.currentPhase = "Study",
                                    !.st.intervalStartTime = now],
                          "swsc/alert/break", "END", TRUE)
                   ELSE m

\* checkTimers() that ends a break only once elapsed minutes exceed
\* breakLength.
F_checkTimers_StrictEnd(m) ==
    IF ~m.st.active THEN m
    ELSE
      LET now == m.ms
          intervalElapsed == UMinutes(now, m.st.intervalStartTime)
      IN  IF ~m.st.onBreak
            THEN IF m.st.breakInterval > 0
                    /\ UGeInt(intervalElapsed, m.st.breakInterval)
                   THEN F_publish(
                          F_triggerBreakAlert(
                            [m EXCEPT !.st.onBreak = TRUE,
                                      !.st.currentPhase = "Break",
                                      !.st.intervalStartTime = now]),
                          "swsc/alert/break", "START", TRUE)
                   ELSE m
            ELSE IF UGeInt(intervalElapsed, m.st.breakLength)
                    /\ intervalElapsed # m.st.breakLength
                   THEN F_publish(
                          [m EXCEPT !.st.onBreak = FALSE,
                                    !.st.currentPhase = "Study",
                                    !.st.intervalStartTime = now],
                          "swsc/alert/break", "END", TRUE)
                   ELSE m

F_checkTimers(m) ==
    IF ~m.st.active THEN m
    ELSE
      LET now == m.ms
          intervalElapsed == UMinutes(now, m.st.intervalStartTime)
      IN  IF ~m.st.onBreak
            THEN IF m.st.breakInterval > 0
                    /\ UGeInt(intervalElapsed, m.st.breakInterval)
                   THEN F_publish(
                          F_triggerBreakAlert(
                            [m EXCEPT !.st.onBreak = TRUE,
                                      !.st.currentPhase = "Break",
                                      !.st.intervalStartTime = now]),
                          "swsc/alert/break", "START", TRUE)
                   ELSE m
            ELSE IF UGeInt(intervalElapsed, m.st.breakLength)
                   THEN F_publish(
                          [m EXCEPT !.st.onBreak = FALSE,
                                    !.st.currentPhase = "Study",
                                    !.st.intervalStartTime = now],
                          "swsc/alert/break", "END", TRUE)
                   ELSE m

F_checkWaterReminder(m) ==
    IF ~m.st.active \/ ~m.st.waterReminderEnabled THEN m
    ELSE
      LET now == m.ms
          waterElapsed == UMinutes(now, m.st.lastWaterCheck)
      IN  IF UGeInt(waterElapsed, m.st.waterInterval)
            THEN F_triggerWaterAlert([m EXCEPT !.st.lastWaterCheck = now])
            ELSE m

Min(a, b) ==
    IF a < b THEN a ELSE b

\* dtostrf(x, 4, 1, buf) of a value in tenths: at least four characters,
\* padded on the left.
dtostrf41(x) ==
    LET c == dtostrf1(x)
    IN  IF Len(c) < 4 THEN [i \in 1..(4 - Len(c)) |-> " "] \o c ELSE c

F_publishSensorData(m) ==
    IF ~m.st.connected THEN m
    ELSE
      LET s == m.st
          elapsedMin == UMinutes(m.ms, s.startTime)
          progress == IF s.studyDuration > 0
                        THEN Min(100, (elapsedMin * 100) \div s.studyDuration)
                        ELSE 0
      IN  [m EXCEPT !.out = @ \o
             << Pub("swsc/data/temperature", dtostrf41(s.temperature), TRUE),
                Pub("swsc/data/humidity", dtostrf41(s.humidity), TRUE),
                Pub("swsc/data/light", IntChars(s.lightValue), TRUE),
                Pub("swsc/data/elapsed", IntChars(elapsedMin), FALSE),
                Pub("swsc/data/progress", IntChars(progress), FALSE) >>]

\* loop() after the transport step.  st.now is the value loop() read from
\* millis() at its top; m.ms is what millis() returns by now.
F_loopBody(m, t, h, ldrRaw) ==
    LET now == m.st.now
    IN  IF ~m.st.active
          THEN IF now - m.st.lastLedBlink >= LED_BLINK_INTERVAL
                 THEN [m EXCEPT !.st.lastLedBlink = now,
                                 !.st.ledBlinkState = ~m.st.ledBlinkState]
                 ELSE m
          ELSE
            LET m2 == IF now - m.st.lastSensorRead >= SENSOR_READ_INTERVAL
                        THEN F_checkEnvironment(
                               F_readSensors(
                                 [m EXCEPT !.st.lastSensorRead = now],
                                 t, h, ldrRaw))
                        ELSE m
                m3 == F_checkTimers(m2)
                m4 == IF m3.st.waterReminderEnabled
                        THEN F_checkWaterReminder(m3) ELSE m3
                m5 == IF now - m4.st.lastMqttPublish >= MQTT_PUBLISH_INTERVAL
                        THEN F_publishSensorData(
                               [m4 EXCEPT !.st.lastMqttPublish = now])
                        ELSE m4
                m6 == IF now - m5.st.lastLedBlink >= LED_BLINK_INTERVAL
                        THEN [m5 EXCEPT
                                !.st.lastLedBlink = now,
                                !.st.ledBlinkState = ~m5.st.ledBlinkState]
                        ELSE m5
                elapsedMinutes == UMinutes(now, m6.st.startTime)
            IN  IF m6.st.studyDuration > 0
                   /\ UGeInt(elapsedMinutes, m6.st.studyDuration)
                  THEN F_stopSystem(
                         F_publish(
                           F_publishStatus(m6, "completed"),
                           "swsc/alert/finished",
                           "Session completed! Great work!", TRUE))
                  ELSE m6

\* ----------------------------------------------------- v2.0 image: actions

\* Sensor readings offered to the v2.0 image.
FixedTemps == {250}
FixedHums == {500}
FixedLdr == {2048}

\* The messages offered to the v2.0 image while its session logic is
\* examined: the configuration of the session, the controls and the break
\* alerts of the server.
FixedInbound ==
    { Msg(TPC_CONFIG_DURATION, p) : p \in {<<"2", "5">>, <<"0">>, <<"-", "5">>} }
      \cup { Msg(TPC_CONFIG_BREAK_INTERVAL, p) : p \in {<<"2", "0">>, <<"0">>} }
      \cup { Msg(TPC_CONFIG_BREAK_LENGTH, p) : p \in {<<"5">>} }
      \cup ControlMsgs
      \cup { Msg(TPC_ALERT_BREAK, p) : p \in {P_START, P_END} }

IsReset(x) ==
    x.topic = TPC_CONTROL_RESET /\ x.payload = P_RESET

\* The top of loop(): read millis(), then either one rate-limited
\* connection attempt (disconnected) or mqtt.loop() with the callback for
\* at most one pending message (connected).  sk is the time that passes
\* between loop()'s read of millis() and the handler's.
F_LoopIO(Inbound) ==
    /\ fw = "fixed" /\ pc = "io"
    /\ \E x \in Inbound \cup {NoMsg}, ok \in BOOLEAN, sk \in {0, 1} :
         LET s0 == [fixed EXCEPT !.now = clock]
             m0 == Mach(s0, <<>>, clock + sk)
             due == clock - s0.lastMqttReconnect >= MQTT_RECONNECT_INTERVAL
             m1 == IF ~s0.connected
                     THEN IF due
                            THEN F_reconnectOnce(
                                   [m0 EXCEPT !.st.lastMqttReconnect = clock],
                                   ok)
                            ELSE m0
                     ELSE IF x # NoMsg
                            THEN F_handleMQTTMessage(m0, x.topic, x.payload, ok)
                            ELSE m0
             reboot == s0.connected /\ IsReset(x)
         IN  /\ s0.connected \/ x = NoMsg
             /\ (s0.connected /\ IsReset(x)) \/ (~s0.connected /\ due) \/ ok
             /\ (x.topic = TPC_CONTROL_START /\ x.payload = P_START) \/ sk = 0
             /\ (clock % TickMs) + sk <= MaxSkew
             /\ fixed' = m1.st
             /\ out' = m1.out
             /\ msg' = x
             /\ pc' = IF reboot THEN "io" ELSE "body"
             /\ clock' = IF reboot THEN 0 ELSE clock + sk
             /\ ticked' = IF reboot THEN TRUE ELSE ticked
    /\ UNCHANGED <<fw, oled, mini, fe>>

\* The rest of loop() with the sensor readings drawn from the given sets.
F_Body(Temps, Hums, Ldrs) ==
    /\ fw = "fixed" /\ pc = "body"
    /\ \E t \in Temps, h \in Hums, l \in Ldrs :
         LET m1 == F_loopBody(Mach(fixed, <<>>, clock), t, h, l)
         IN  /\ fixed' = m1.st
             /\ out' = m1.out
    /\ pc' = "io"
    /\ ticked' = FALSE
    /\ msg' = NoMsg
    /\ UNCHANGED <<fw, clock, oled, mini, fe>>

F_LoopBody ==
    F_Body(FixedTemps, FixedHums, FixedLdr)

\* The broker connection drops.
F_Disconnect ==
    /\ fw = "fixed" /\ pc = "io" /\ fixed.connected
    /\ fixed' = [fixed EXCEPT !.connected = FALSE, !.subs = {}]
    /\ UNCHANGED <<fw, clock, pc, ticked, msg, out, oled, mini, fe>>

\* ------------------------------------------------------------ minimal image

\* The globals of part_000 as their initialisers leave them, the two LED
\* pins the callback drives, and the transport.
MiniBoot ==
    [ cfg_dur |-> 0, cfg_break_int |-> 0, cfg_break_len |-> 0,
      cfg_water |-> FALSE, cfg_ready |-> FALSE,
      running |-> FALSE, in_break |-> FALSE,
      water_active |-> [i \in 0..(MAX_WATER_ALARMS - 1) |-> FALSE],
      lastSensor |-> 0, ledGreen |-> FALSE, ledRed |-> FALSE,
      connected |-> FALSE, subs |-> {} ]

M_publish(m, topic, payload) ==
    IF m.st.connected
      THEN [m EXCEPT !.out = Append(@, Pub(topic, payload, FALSE))]
      ELSE m

M_callback(m, topic, payload) ==
    LET s0 == m.st
        s1 == IF topic = TPC_CONFIG_DURATION
                THEN [s0 EXCEPT !.cfg_dur = toInt(payload)]
              ELSE IF topic = TPC_CONFIG_BREAK_INTERVAL
                THEN [s0 EXCEPT !.cfg_break_int = toInt(payload)]
              ELSE IF topic = TPC_CONFIG_BREAK_LENGTH
                THEN [s0 EXCEPT !.cfg_break_len = toInt(payload)]
              ELSE IF topic = TPC_CONTROL_START
                THEN [s0 EXCEPT !.running = TRUE, !.in_break = FALSE,
                                !.ledGreen = TRUE]
              ELSE IF topic = TPC_CONTROL_STOP
                THEN [s0 EXCEPT !.running = FALSE,
                                !.ledGreen = FALSE, !.ledRed = FALSE]
              ELSE IF topic = TPC_ALERT_BREAK
                THEN (IF payload = P_START
                        THEN [s0 EXCEPT !.in_break = TRUE, !.ledRed = TRUE]
                        ELSE [s0 EXCEPT !.in_break = FALSE, !.ledRed = FALSE])
              ELSE s0
    IN  [m EXCEPT !.st = [s1 EXCEPT !.cfg_ready = (s1.cfg_dur > 0)]]

\* reconnect() returns only once the broker accepted the connection.
M_reconnect(m) ==
    [m EXCEPT !.st.connected = TRUE,
              !.st.subs = {"swsc/config/#", "swsc/control/#", "swsc/alert/#"}]

\* String(float): two decimals; the reading is given in tenths.
StringFloat2(x) ==
    dtostrf1(x) \o <<"0">>

\* The rest of loop() after mqtt.loop(): the sensor cadence.
M_loopBody(m, t, h, pinLow) ==
    IF m.ms - m.st.lastSensor > 2000
      THEN LET m1 == [m EXCEPT !.st.lastSensor = m.ms]
               m2 == IF t # NaN
                       THEN M_publish(m1, "swsc/data/temperature",
                                      StringFloat2(t))
                       ELSE m1
               m3 == IF h # NaN
                       THEN M_publish(m2, "swsc/data/humidity",
                                      StringFloat2(h))
                       ELSE m2
           IN  M_publish(m3, "swsc/data/light",
                         IntChars(IF pinLow THEN 1 ELSE 0))
      ELSE m

\* The messages offered to the minimal image.
MiniInbound ==
    { Msg(TPC_CONFIG_DURATION, p) : p \in {<<"2", "5">>, <<"0">>, <<"-", "5">>} }
      \cup { Msg(TPC_CONFIG_BREAK_INTERVAL, <<"2", "0">>),
             Msg(TPC_CONFIG_BREAK_LENGTH, <<"5">>) }
      \cup ControlMsgs
      \cup { Msg(TPC_ALERT_BREAK, p) : p \in BreakPayloads }
      \cup { Msg(TPC_ALERT_WATER, P_START \o <<":", "0">>) }

M_LoopIO(Inbound) ==
    /\ fw = "mini" /\ pc \in {"io", "wait"}
    /\ \E x \in Inbound \cup {NoMsg} :
         LET m0 == Mach(mini, <<>>, clock)
             m1 == IF ~mini.connected THEN M_reconnect(m0) ELSE m0
             m2 == IF x # NoMsg THEN M_callback(m1, x.topic, x.payload)
                   ELSE m1
         IN  /\ mini' = m2.st
             /\ out' = m2.out
             /\ msg' = x
    /\ pc' = "body"
    /\ UNCHANGED <<fw, clock, ticked, oled, fixed, fe>>

M_LoopBody ==
    /\ fw = "mini" /\ pc = "body"
    /\ \E t \in TempReadings, h \in HumReadings, pinLow \in BOOLEAN :
         LET m1 == M_loopBody(Mach(mini, <<>>, clock), t, h, pinLow)
         IN  /\ mini' = m1.st
             /\ out' = m1.out
    /\ pc' = "io"
    /\ ticked' = FALSE
    /\ msg' = NoMsg
    /\ UNCHANGED <<fw, clock, oled, fixed, fe>>

\* reconnect() called by loop(): the broker refuses the connection and
\* the device stays in the retry loop of reconnect().
M_ConnectRefused ==
    /\ fw = "mini" /\ pc = "io" /\ ~mini.connected
    /\ pc' = "wait"
    /\ UNCHANGED <<fw, clock, ticked, msg, out, oled, fixed, mini, fe>>

\* The broker connection drops.
M_Disconnect ==
    /\ fw = "mini" /\ pc = "io" /\ mini.connected
    /\ mini' = [mini EXCEPT !.connected = FALSE, !.subs = {}]
    /\ UNCHANGED <<fw, clock, pc, ticked, msg, out, oled, fixed, fe>>

\* ----------------------------------------------------------------- FE image
\* TEMP_MIN, TEMP_MAX, LED_BLINK_INTERVAL and MQTT_PUBLISH_INTERVAL have the
\* values of the v2.0 image.

HUMIDITY_MIN == 400
HUMIDITY_MAX == 700

\* delay(500) of reconnectMQTT(): millis() is at least this when setup()
\* returns.
E_CONNECT_DELAY == 500

E_millis(c) ==
    c + E_CONNECT_DELAY

FeBoot ==
    [ systemActive |-> FALSE, configReceived |-> FALSE,
      studyDuration |-> 0, breakInterval |-> 0, breakLength |-> 0,
      waterReminderEnabled |-> TRUE,
      studyStartTime |-> 0, lastMQTTPublish |-> 0, lastLedBlink |-> 0,
      environmentStatus |-> "Waiting...",
      currentTemp |-> 0, currentHumidity |-> 0, currentLight |-> 0,
      breakAlertActive |-> FALSE, waterAlertActive |-> FALSE,
      ledRed |-> FALSE, ledGreen |-> FALSE, ledBlue |-> FALSE,
      connected |-> FALSE, subs |-> {} ]

E_publish(m, topic, payload) ==
    IF m.st.connected
      THEN [m EXCEPT !.out = Append(@, Pub(topic, payload, FALSE))]
      ELSE m

E_publishStatus(m, status) ==
    E_publish(m, "swsc/status/system", status)

\* reconnectMQTT() without the two alert subscriptions.
E_reconnectMQTT_NoAlert(m) ==
    E_publishStatus(
      [m EXCEPT !.st.connected = TRUE,
                !.st.subs = {"swsc/config/#", "swsc/control/#"}],
      "ready")

\* reconnectMQTT() returns only once the broker accepted the connection.
E_reconnectMQTT(m) ==
    E_publishStatus(
      [m EXCEPT !.st.connected = TRUE,
                !.st.subs = {"swsc/config/#", "swsc/control/#",
                             "swsc/alert/break", "swsc/alert/water"}],
      "ready")

E_setup ==
    E_reconnectMQTT(Mach(FeBoot, <<>>, E_millis(0)))

E_handleStatusLed(m) ==
    IF m.st.systemActive
      THEN [m EXCEPT !.st.ledBlue = FALSE, !.st.ledGreen = TRUE]
    ELSE IF m.ms - m.st.lastLedBlink > LED_BLINK_INTERVAL
      THEN [m EXCEPT !.st.ledGreen = FALSE,
                     !.st.ledBlue = ~m.st.ledBlue,
                     !.st.lastLedBlink = m.ms]
    ELSE [m EXCEPT !.st.ledGreen = FALSE]

E_startSystem(m) ==
    E_publishStatus(
      E_handleStatusLed([m EXCEPT !.st.systemActive = TRUE,
                                  !.st.studyStartTime = m.ms,
                                  !.st.lastMQTTPublish = m.ms,
                                  !.st.breakAlertActive = FALSE,
                                  !.st.waterAlertActive = FALSE]),
      "active")

E_stopSystem(m) ==
    E_publishStatus(
      E_handleStatusLed([m EXCEPT !.st.systemActive = FALSE,
                                  !.st.breakAlertActive = FALSE,
                                  !.st.waterAlertActive = FALSE,
                                  !.st.ledRed = FALSE,
                                  !.st.ledBlue = FALSE]),
      "stopped")

\* The blocking beep sequence handles no message, so systemActive is the
\* same at each of its tests; either way the flag and the LED end cleared.
E_triggerBreakAlertStart(m) ==
    [m EXCEPT !.st.breakAlertActive = FALSE, !.st.ledRed = FALSE]

E_triggerBreakAlertEnd(m) ==
    [m EXCEPT !.st.breakAlertActive = FALSE, !.st.ledRed = FALSE]

E_triggerWaterAlertStart(m) ==
    IF ~m.st.waterReminderEnabled THEN m
    ELSE IF ~m.st.systemActive
      THEN [m EXCEPT !.st.waterAlertActive = FALSE, !.st.ledBlue = FALSE]
    ELSE [m EXCEPT !.st.waterAlertActive = TRUE, !.st.ledBlue = FALSE]

E_triggerWaterAlertStop(m) ==
    [m EXCEPT !.st.waterAlertActive = FALSE, !.st.ledBlue = FALSE]

\* swsc/control/reset: the status is published, then ESP.restart() runs
\* setup() again.
E_reset(m) ==
    E_reconnectMQTT(Mach(FeBoot, E_publishStatus(m, "Resetting...").out,
                         E_millis(0)))

E_mqttCallback(m, topic, payload) ==
    IF topic = TPC_CONFIG_DURATION
      THEN [m EXCEPT !.st.studyDuration = toInt(payload),
                     !.st.configReceived = TRUE]
    ELSE IF topic = TPC_CONFIG_BREAK_INTERVAL
      THEN [m EXCEPT !.st.breakInterval = toInt(payload)]
    ELSE IF topic = TPC_CONFIG_BREAK_LENGTH
      THEN [m EXCEPT !.st.breakLength = toInt(payload)]
    ELSE IF topic = TPC_CONFIG_WATER_REM
      THEN [m EXCEPT !.st.waterReminderEnabled = (payload = P_on)]
    ELSE IF topic = TPC_CONTROL_START
      THEN (IF m.st.configReceived THEN E_startSystem(m)
            ELSE E_publish(m, "swsc/status/error", "Config not received"))
    ELSE IF topic = TPC_CONTROL_STOP THEN E_stopSystem(m)
    ELSE IF topic = TPC_CONTROL_RESET THEN E_reset(m)
    ELSE IF topic = TPC_ALERT_BREAK
      THEN (IF payload = P_START THEN E_triggerBreakAlertStart(m)
            ELSE IF payload = P_END THEN E_triggerBreakAlertEnd(m)
            ELSE m)
    ELSE IF topic = TPC_ALERT_WATER
      THEN (IF startsWith(payload, P_START) THEN E_triggerWaterAlertStart(m)
            ELSE IF startsWith(payload, P_STOP)
              THEN E_triggerWaterAlertStop(m)
            ELSE m)
    ELSE m

E_checkEnvironment(m, temp, humidity, light) ==
    LET lastStatus == m.st.environmentStatus
        hot == temp > TEMP_MAX
        m1 == IF hot
                THEN E_publish([m EXCEPT !.st.environmentStatus = "PANAS!"],
                               "swsc/alert/environment",
                               "Temperature too high!")
              ELSE IF temp < TEMP_MIN
                THEN [m EXCEPT !.st.environmentStatus = "Dingin"]
              ELSE m
        m2 == IF ~hot /\ humidity < HUMIDITY_MIN
                THEN [m1 EXCEPT !.st.environmentStatus = "Kering"]
              ELSE IF ~hot /\ humidity > HUMIDITY_MAX
                THEN [m1 EXCEPT !.st.environmentStatus = "Lembab"]
              ELSE m1
        dark == ~hot /\ light = 0
        m3 == IF dark
                THEN E_publish([m2 EXCEPT !.st.environmentStatus = "Gelap"],
                               "swsc/alert/environment",
                               "Light level too low!")
              ELSE IF light = 1000 /\ ~hot
                      /\ m2.st.environmentStatus # "PANAS!"
                THEN [m2 EXCEPT !.st.environmentStatus = "Terang"]
              ELSE m2
        alertSent == hot \/ dark
        m4 == IF ~alertSent /\ temp >= TEMP_MIN /\ temp <= TEMP_MAX
                 /\ humidity >= HUMIDITY_MIN /\ humidity <= HUMIDITY_MAX
                 /\ light = 1000
                THEN [m3 EXCEPT !.st.environmentStatus = "Ideal"]
                ELSE m3
    IN  IF m4.st.environmentStatus # lastStatus
          THEN E_publish(m4, "swsc/status/environment",
                         m4.st.environmentStatus)
          ELSE m4

E_publishSensorData(m) ==
    LET s == m.st
        elapsedMin == IF s.studyStartTime > 0
                        THEN (m.ms - s.studyStartTime) \div 60000
                        ELSE 0
    IN  E_publish(
          E_publish(
            E_publish(
              E_publish(
                E_publish(m, "swsc/data/temperature",
                          dtostrf41(s.currentTemp)),
                "swsc/data/humidity", dtostrf41(s.currentHumidity)),
              "swsc/data/light", IntChars(s.currentLight)),
            "swsc/data/elapsed", IntChars(elapsedMin)),
          "swsc/data/progress", <<"0">>)

\* The rest of loop() after mqtt.loop().  pinHigh is the level of the LDR
\* pin (HIGH = dark).
E_loopBody(m, t, h, pinHigh) ==
    LET m1 == E_handleStatusLed(m)
    IN  IF ~m1.st.systemActive THEN m1
        ELSE LET bad == t = NaN \/ h = NaN
                 m2 == [m1 EXCEPT
                          !.st.currentTemp = IF bad THEN 0 ELSE t,
                          !.st.currentHumidity = IF bad THEN 0 ELSE h,
                          !.st.currentLight = IF pinHigh THEN 0 ELSE 1000]
                 m3 == E_checkEnvironment(m2, m2.st.currentTemp,
                                          m2.st.currentHumidity,
                                          m2.st.currentLight)
             IN  IF m3.ms - m3.st.lastMQTTPublish >= MQTT_PUBLISH_INTERVAL
                   THEN [E_publishSensorData(m3) EXCEPT
                           !.st.lastMQTTPublish = m3.ms]
                   ELSE m3

\* Sensor readings offered to the FE image, in tenths of a unit.
FeTemps == {250, 310}
FeHums == {500}

\* The messages offered to the FE image.
FeInbound ==
    { Msg(TPC_CONFIG_DURATION, p) : p \in {<<"2", "5">>, <<"0">>} }
      \cup { Msg(TPC_CONFIG_WATER_REM, p) : p \in {P_on, <<"o", "f", "f">>} }
      \cup { Msg(TPC_CONTROL_START, P_START), Msg(TPC_CONTROL_STOP, P_STOP),
             Msg(TPC_CONTROL_RESET, P_RESET) }
      \cup { Msg(TPC_ALERT_BREAK, p) : p \in {P_START, P_END} }
      \cup { Msg(TPC_ALERT_WATER, p) :
               p \in {P_START \o <<":", "0">>, P_STOP \o <<":", "0">>,
                      P_PING} }

\* loop() up to and including mqtt.loop().
E_LoopIO(Inbound) ==
    /\ fw = "fe" /\ pc \in {"io", "wait"}
    /\ \E x \in Inbound \cup {NoMsg} :
         LET m0 == Mach(fe, <<>>, E_millis(clock))
             m1 == IF ~fe.connected THEN E_reconnectMQTT(m0) ELSE m0
             m2 == IF x # NoMsg THEN E_mqttCallback(m1, x.topic, x.payload)
                   ELSE m1
             reboot == x.topic = TPC_CONTROL_RESET
         IN  /\ fe' = m2.st
             /\ out' = m2.out
             /\ msg' = x
             /\ pc' = IF reboot THEN "io" ELSE "body"
             /\ clock' = IF reboot THEN 0 ELSE clock
             /\ ticked' = IF reboot THEN TRUE ELSE ticked
    /\ UNCHANGED <<fw, oled, fixed, mini>>

\* The rest of loop() with the sensor readings drawn from the given sets.
E_Body(Temps, Hums) ==
    /\ fw = "fe" /\ pc = "body"
    /\ \E t \in Temps, h \in Hums, pinHigh \in BOOLEAN :
         LET m1 == E_loopBody(Mach(fe, <<>>, E_millis(clock)), t, h, pinHigh)
         IN  /\ fe' = m1.st
             /\ out' = m1.out
    /\ pc' = "io"
    /\ ticked' = FALSE
    /\ msg' = NoMsg
    /\ UNCHANGED <<fw, clock, oled, fixed, mini>>

E_LoopBody ==
    E_Body(FeTemps, FeHums)

\* reconnectMQTT() called by loop(): the broker refuses the connection
\* and the device stays in the retry loop of reconnectMQTT().
E_ConnectRefused ==
    /\ fw = "fe" /\ pc = "io" /\ ~fe.connected
    /\ pc' = "wait"
    /\ UNCHANGED <<fw, clock, ticked, msg, out, oled, fixed, mini, fe>>

\* The broker connection drops.
E_Disconnect ==
    /\ fw = "fe" /\ pc = "io" /\ fe.connected
    /\ fe' = [fe EXCEPT !.connected = FALSE, !.subs = {}]
    /\ UNCHANGED <<fw, clock, pc, ticked, msg, out, oled, fixed, mini>>

\* ------------------------------------------------------------ time passes

\* One quantum passes between two loop() iterations, up to max quanta.
TickTo(max) ==
    /\ pc \in {"io", "wait"} /\ ~ticked
    /\ clock < max * TickMs
    /\ clock' = clock + TickMs
    /\ ticked' = TRUE
    /\ UNCHANGED <<fw, pc, msg, out, oled, fixed, mini, fe>>

Tick ==
    TickTo(MaxTicks(fw))

\* ---------------------------------------------------------- specification

Init ==
    /\ fw \in {"oled", "fixed", "mini", "fe"}
    /\ clock = 0
    /\ pc = "io"
    /\ ticked = TRUE
    /\ msg = NoMsg
    /\ oled = OledInit
    /\ mini = MiniBoot
    /\ fe = E_setup.st
    /\ \E ok \in BOOLEAN :
         /\ fw = "fixed" \/ ok
         /\ fixed = F_setup(ok).st
         /\ out = IF fw = "fixed" THEN F_setup(ok).out
                  ELSE IF fw = "fe" THEN E_setup.out
                  ELSE <<>>

NextOled ==
    \/ O_LoopIO
    \/ O_LoopBody
    \/ O_Disconnect
    \/ O_ConnectRefused
    \/ Tick

NextFixed ==
    \/ F_LoopIO(FixedInbound)
    \/ F_LoopBody
    \/ Tick

NextMini ==
    \/ M_LoopIO(MiniInbound)
    \/ M_LoopBody
    \/ M_Disconnect
    \/ M_ConnectRefused
    \/ Tick

NextFe ==
    \/ E_LoopIO(FeInbound)
    \/ E_LoopBody
    \/ E_Disconnect
    \/ E_ConnectRefused
    \/ Tick

Next ==
    \/ O_LoopIO
    \/ O_LoopBody
    \/ O_Disconnect
    \/ O_ConnectRefused
    \/ F_LoopIO(FixedInbound)
    \/ F_LoopBody
    \/ M_LoopIO(MiniInbound)
    \/ M_LoopBody
    \/ M_Disconnect
    \/ M_ConnectRefused
    \/ E_LoopIO(FeInbound)
    \/ E_LoopBody
    \/ E_Disconnect
    \/ E_ConnectRefused
    \/ Tick

Spec == Init /\ [][Next]_vars

InitOled ==
    Init /\ fw = "oled"

SpecOled == InitOled /\ [][NextOled]_vars

InitFixed ==
    Init /\ fw = "fixed"

SpecFixed == InitFixed /\ [][NextFixed]_vars

\* The scenario of one configured session of the v2.0 image: the three
\* configuration values and Start arrive while no session runs; nothing
\* arrives while one runs.
ScenarioInbound ==
    IF fixed.active THEN {}
    ELSE { Msg(TPC_CONFIG_DURATION, <<"2", "5">>),
           Msg(TPC_CONFIG_BREAK_INTERVAL, <<"2", "0">>),
           Msg(TPC_CONFIG_BREAK_LENGTH, <<"5">>),
           Msg(TPC_CONTROL_START, P_START) }

InitScenario ==
    Init /\ fw = "fixed" /\ fixed.connected

NextScenario ==
    \/ F_LoopIO(ScenarioInbound)
    \/ F_LoopBody
    \/ Tick

SpecScenario == InitScenario /\ [][NextScenario]_vars

InitMini ==
    Init /\ fw = "mini"

SpecMini == InitMini /\ [][NextMini]_vars

InitFe ==
    Init /\ fw = "fe"

SpecFe == InitFe /\ [][NextFe]_vars

\* The environment monitor of the v2.0 and FE images: a session is
\* configured, started and stopped while the sensors deliver hot, cold,
\* in-range and failed readings, dry and in-range humidity, and dark,
\* in-range and bright light.
EnvTemps == {NaN, 150, 250, 320}
EnvHums == {300, 500}
EnvLdr == {0, 2048, 4095}

EnvInbound ==
    { Msg(TPC_CONFIG_DURATION, <<"2", "5">>),
      Msg(TPC_CONTROL_START, P_START), Msg(TPC_CONTROL_STOP, P_STOP) }

InitEnv ==
    Init /\ fw \in {"fixed", "fe"}

NextEnv ==
    \/ F_LoopIO(EnvInbound)
    \/ F_Body(EnvTemps, EnvHums, EnvLdr)
    \/ E_LoopIO(EnvInbound)
    \/ E_Body(EnvTemps, EnvHums)
    \/ Tick

SpecEnv == InitEnv /\ [][NextEnv]_vars

\* The local timers of the v2.0 image over a long session: the session is
\* configured and started while none runs; while one runs the server may
\* raise and acknowledge a water alert, and nothing else arrives.
TimerInbound ==
    IF fixed.active
      THEN { Msg(TPC_ALERT_WATER, P_START), Msg(TPC_ALERT_WATER, P_STOP) }
      ELSE { Msg(TPC_CONFIG_DURATION, p) : p \in {<<"2", "5">>, <<"4", "5">>} }
             \cup { Msg(TPC_CONFIG_BREAK_INTERVAL, p) :
                      p \in {<<"1", "0">>, <<"0">>} }
             \cup { Msg(TPC_CONFIG_BREAK_LENGTH, p) :
                      p \in {<<"5">>, <<"-", "5">>} }
             \cup { Msg(TPC_CONTROL_START, P_START) }

InitTimers ==
    Init /\ fw = "fixed"

TickTimers ==
    TickTo(MaxTicksTimers)

NextTimers ==
    \/ F_LoopIO(TimerInbound)
    \/ F_LoopBody
    \/ TickTimers

SpecTimers == InitTimers /\ [][NextTimers]_vars

\* A session of the v2.0 image left to itself: the configuration and Start
\* arrive while a whole session of the duration LiveDuration still fits before
\* the clock bound, nothing arrives while the session runs, and the broker
\* connection may drop.  loop() runs again and again and time keeps
\* passing.
LiveDuration == <<"2", "5">>

LiveInbound ==
    IF fixed.active
       \/ clock + toInt(LiveDuration) * 60000 > MaxTicksFixed * TickMs
      THEN {}
      ELSE { Msg(TPC_CONFIG_DURATION, p) : p \in {LiveDuration, <<"-", "5">>} }
             \cup { Msg(TPC_CONFIG_BREAK_INTERVAL, <<"1", "0">>),
                    Msg(TPC_CONFIG_BREAK_LENGTH, <<"5">>),
                    Msg(TPC_CONTROL_START, P_START) }

InitLive ==
    Init /\ fw = "fixed"

NextLive ==
    \/ F_LoopIO(LiveInbound)
    \/ F_LoopBody
    \/ F_Disconnect
    \/ Tick

\* The Arduino core calls loop() for ever, so both halves of an iteration
\* recur (weak fairness of the two loop actions, written with their enabling
\* positions: only they leave "io" for "body" and "body" for "io"), and
\* millis() keeps advancing between iterations (strong fairness of Tick,
\* which every transport step disables for a moment).
SpecLive ==
    /\ InitLive /\ [][NextLive]_vars
    /\ []<>(pc = "io")
    /\ []<>(pc = "body")
    /\ SF_vars(Tick)

\* ------------------------------------------------------- blocking delays

\* The milliseconds of delay() the v2.0 image executes while it handles the
\* message x in state st: startSystem() sleeps 300 ms between its beeps,
\* stopSystem() 200 + 200 ms between its beeps and 2000 ms before the
\* waiting screen, resetSystem() 500 ms, triggerBreakAlert() three times
\* 300 + 200 ms.
F_handlerDelay(st, x) ==
    IF x.topic = TPC_CONTROL_START /\ x.payload = P_START
      THEN (IF ~st.configReady \/ st.studyDuration = 0 THEN 0 ELSE 300)
    ELSE IF x.topic = TPC_CONTROL_STOP /\ x.payload = P_STOP
      THEN 200 + 200 + 2000
    ELSE IF x.topic = TPC_CONTROL_RESET /\ x.payload = P_RESET
      THEN 500
    ELSE IF x.topic = TPC_ALERT_BREAK /\ x.payload = P_START
      THEN 3 * (300 + 200)
    ELSE 0

BUZZ_SHORT_MS == 120
BUZZ_GAP_MS == 100

\* beepOnce(ms): buzzer on, delay(ms), buzzer off.
O_beepOnce(ms) ==
    ms

\* The milliseconds of delay() the OLED image executes while it handles
\* the message x in state st.
O_handlerDelay(st, x) ==
    LET twoBeeps == 2 * (O_beepOnce(BUZZ_SHORT_MS) + BUZZ_GAP_MS)
        breakEnd == 300 + 150 + 300
    IN  IF x.topic = TPC_CONTROL_START
          THEN (IF st.cfg_ready THEN twoBeeps ELSE 0)
        ELSE IF x.topic = TPC_CONTROL_STOP THEN O_beepOnce(400)
        ELSE IF x.topic = TPC_ALERT_BREAK
          THEN (IF x.payload = P_START THEN twoBeeps
                ELSE IF x.payload = P_END THEN breakEnd
                ELSE 0)
        ELSE IF x.topic = TPC_ALERT_WATER
          THEN (IF startsWith(x.payload, P_START \o <<":">>)
                  THEN LET id == toInt(substring(x.payload, 6))
                       IN  IF id >= 0 /\ id < MAX_WATER_ALARMS
                             THEN O_beepOnce(BUZZ_SHORT_MS) ELSE 0
                ELSE IF startsWith(x.payload, P_PING \o <<":">>)
                  THEN O_beepOnce(80)
                ELSE 0)
        ELSE 0

\* The local timers of the v2.0 image with zero-valued break settings: the
\* session is configured and started while none runs, and nothing arrives
\* while one runs.
ZeroBreakInbound ==
    IF fixed.active THEN {}
    ELSE { Msg(TPC_CONFIG_DURATION, p) : p \in {<<"2", "5">>, <<"4", "5">>} }
           \cup { Msg(TPC_CONFIG_BREAK_INTERVAL, p) :
                    p \in {<<"1", "0">>, <<"0">>} }
           \cup { Msg(TPC_CONFIG_BREAK_LENGTH, p) :
                    p \in {<<"5">>, <<"0">>} }
           \cup { Msg(TPC_CONTROL_START, P_START) }

InitZeroBreak ==
    Init /\ fw = "fixed"

NextZeroBreak ==
    \/ F_LoopIO(ZeroBreakInbound)
    \/ F_LoopBody
    \/ TickTimers

SpecZeroBreak == InitZeroBreak /\ [][NextZeroBreak]_vars

\* ------------------------------------------------------------------ claims

StartCmd == Msg(TPC_CONTROL_START, P_START)
StopCmd == Msg(TPC_CONTROL_STOP, P_STOP)
BreakStart == Msg(TPC_ALERT_BREAK, P_START)
BreakEnd == Msg(TPC_ALERT_BREAK, P_END)

\* The transport step of image f hands a message to the callback.
Handles(f) ==
    fw = f /\ pc \in {"io", "wait"} /\ pc' = "body" /\ msg' # NoMsg

\* The body step of image f ends a loop() iteration.
EndsIteration(f) ==
    fw = f /\ pc = "body" /\ pc' = "io"

AllWaterOff(wa) ==
    \A i \in 0..(MAX_WATER_ALARMS - 1) : ~wa[i]

\* C1: after any sequence of configuration updates, in every image, the
\* readiness flag is true exactly when the configured duration is above
\* zero.
C1_ReadyIffDurationPositive ==
    /\ fw = "oled" => (oled.cfg_ready <=> oled.cfg_duration_min > 0)
    /\ fw = "fixed" => (fixed.configReady <=> fixed.studyDuration > 0)
    /\ fw = "mini" => (mini.cfg_ready <=> mini.cfg_dur > 0)

C2_Step ==
    /\ (Handles("oled") /\ msg' = StartCmd /\ ~oled.cfg_ready) =>
         /\ oled'.session_running = oled.session_running
         /\ oled'.in_break = oled.in_break
         /\ oled'.session_stopped = oled.session_stopped
    /\ (Handles("fixed") /\ msg' = StartCmd /\ ~fixed.configReady) =>
         /\ fixed'.active = fixed.active
         /\ fixed'.onBreak = fixed.onBreak
         /\ fixed'.startTime = fixed.startTime
         /\ fixed'.intervalStartTime = fixed.intervalStartTime
    /\ (Handles("mini") /\ msg' = StartCmd /\ ~mini.cfg_ready) =>
         /\ mini'.running = mini.running
         /\ mini'.in_break = mini.in_break

\* C2: a Start command handled while the image's readiness flag is false
\* leaves the running, on-break and stopped flags and the session and
\* phase timers as they were.
C2_StartNotReadyKeepsPhase ==
    [][C2_Step]_vars

C3_Step ==
    /\ (Handles("oled") /\ msg' = StartCmd /\ oled.cfg_ready) =>
         /\ oled'.session_running
         /\ ~oled'.session_stopped
         /\ ~oled'.in_break
         /\ AllWaterOff(oled'.water_active)
    /\ (Handles("fixed") /\ msg' = StartCmd
          /\ fixed.configReady /\ fixed.studyDuration # 0) =>
         /\ fixed'.active
         /\ ~fixed'.onBreak
         /\ fixed'.currentPhase = "Study"
         /\ clock' - fixed'.startTime = 0
         /\ clock' - fixed'.intervalStartTime = 0

\* C3: when the handler of an accepted Start command returns, the image
\* is Studying: running, not stopped, break flag cleared, all 32 water
\* alarms inactive (OLED image), and session and phase elapsed time 0
\* (v2.0 image, which keeps the timers).
C3_AcceptedStartResets ==
    [][C3_Step]_vars

\* An accepted Start has just been handled by the OLED image.
C3_Witness ==
    /\ fw = "oled" /\ pc = "body" /\ msg = StartCmd
    /\ oled.session_running /\ ~oled.session_stopped /\ oled.cfg_ready

C4_Step ==
    /\ (EndsIteration("oled") /\ msg = BreakStart /\ oled.session_running)
         => oled'.in_break
    /\ (EndsIteration("fixed") /\ msg = BreakStart
          /\ fixed.active /\ ~fixed.onBreak /\ fixed.studyDuration > 0)
         => (fixed'.onBreak \/ ~fixed'.active)

\* C4: when the loop() iteration that handled alert/break START ends, an
\* image that was Studying is on break (or its session has ended).
C4_BreakStartYieldsOnBreak ==
    [][C4_Step]_vars

\* checkTimers() would change the phase in this iteration.
C5_TimerExpires ==
    F_checkTimers(Mach(fixed, <<>>, clock)).st.onBreak # fixed.onBreak

C5_Step ==
    (/\ EndsIteration("fixed")
     /\ msg \in {BreakStart, BreakEnd}
     /\ fixed.active /\ fixed.studyDuration > 0 /\ C5_TimerExpires
     /\ fixed'.active)
      => (fixed'.onBreak <=> msg = BreakStart)

\* C5: when the local phase timer expires in the iteration that handled
\* an alert/break START or END, the phase at the end of the iteration is
\* the one the message names.
C5_OverrideWins ==
    [][C5_Step]_vars

C6_Configured ==
    /\ fixed.studyDuration = 25
    /\ fixed.breakInterval = 20
    /\ fixed.breakLength = 5

\* Whole minutes since the session started.
C6_Elapsed ==
    (clock - fixed.startTime) \div 60000

C6_Published(o, topic, payload) ==
    \E i \in 1..Len(o) : o[i].topic = topic /\ o[i].payload = payload

C6_Step ==
    (EndsIteration("fixed") /\ fixed.active /\ C6_Configured) =>
      /\ C6_Elapsed = 0 => (fixed'.active /\ ~fixed'.onBreak)
      /\ C6_Elapsed = 20 => (fixed'.active /\ fixed'.onBreak)
      /\ C6_Elapsed = 25 => (fixed'.active /\ ~fixed'.onBreak)
      /\ C6_Elapsed = 45 =>
           (~fixed'.active
              /\ C6_Published(out', "swsc/status/system", "completed"))

\* C6: with duration 25, break_interval 20, break_length 5 and nothing
\* arriving during the session, the loop() iteration at minute 0 of the
\* session ends Studying, the one at minute 20 ends on break, the one at
\* minute 25 ends Studying, and the one at minute 45 ends stopped with
\* status "completed".
C6_ScenarioSchedule ==
    [][C6_Step]_vars

C7_HasStatus(o) ==
    \E i \in 1..Len(o) : o[i].topic = "swsc/status/system"

C7_Step ==
    /\ (Handles("oled") /\ msg' = StartCmd
          /\ oled.cfg_duration_min <= 0 /\ ~oled.session_running) =>
         (~oled'.session_running /\ C7_HasStatus(out'))
    /\ (Handles("fixed") /\ msg' = StartCmd
          /\ fixed.studyDuration <= 0 /\ ~fixed.active) =>
         (~fixed'.active /\ C7_HasStatus(out'))

\* C7: a Start command handled while the duration is zero or negative and
\* no session runs starts no session and publishes a status on
\* swsc/status/system.
C7_NonPositiveDurationRejected ==
    [][C7_Step]_vars

C8_Start(id) == P_START \o <<":">> \o IntChars(id)
C8_Stop(id) == P_STOP \o <<":">> \o IntChars(id)

\* C8: from every reachable state in which the OLED image polls for a
\* message and for every id in [0, 32): START:id applied twice gives what START:id applied once gives,
\* namely the state with alarm id active and nothing else changed; a
\* following STOP:id gives the state with alarm id inactive and nothing
\* else changed.
C8_WaterStartIdempotentStopExact ==
    (fw = "oled" /\ pc = "io") =>
      \A id \in 0..(MAX_WATER_ALARMS - 1) :
        LET m0 == Mach(oled, <<>>, clock)
            m1 == O_handleAlertWater(m0, C8_Start(id))
            m2 == O_handleAlertWater(m1, C8_Start(id))
            m3 == O_handleAlertWater(m2, C8_Stop(id))
        IN  /\ m2 = m1
            /\ m1 = [m0 EXCEPT !.st.water_active[id] = TRUE]
            /\ m3 = [m0 EXCEPT !.st.water_active[id] = FALSE]

\* START:31 has just been handled while alarm 0 is active too.
C8_Witness ==
    /\ fw = "oled" /\ pc = "body"
    /\ msg = Msg(TPC_ALERT_WATER, C8_Start(31))
    /\ oled.water_active[31] /\ oled.water_active[0]

C9_OutOfRangeIds ==
    { <<"3", "2">>, <<"9", "9">>, <<"-", "1">> }

C9_OutOfRange ==
    { P_START \o <<":">> \o t : t \in C9_OutOfRangeIds }
      \cup { P_STOP \o <<":">> \o t : t \in C9_OutOfRangeIds }

C9_Step ==
    (Handles("oled") /\ msg'.topic = TPC_ALERT_WATER
       /\ msg'.payload \in C9_OutOfRange) =>
      /\ oled'.water_active = oled.water_active
      /\ ~oled'.memFault
      /\ oled'.session_running = oled.session_running
      /\ oled'.in_break = oled.in_break
      /\ oled'.session_stopped = oled.session_stopped

\* C9: handling alert/water START:id or STOP:id with id = 32, 99 or -1
\* leaves the 32 alarm flags and the phase flags as they were and writes
\* nothing outside the array.
C9_OutOfRangeIgnored ==
    [][C9_Step]_vars

\* START:99 has just been handled while alarm 0 is active.
C9_Witness ==
    /\ fw = "oled" /\ pc = "body"
    /\ msg = Msg(TPC_ALERT_WATER, P_START \o <<":", "9", "9">>)
    /\ oled.water_active[0] /\ ~oled.memFault

\* C10: when the handler of a Stop command returns, the OLED image is
\* stopped with all 32 water alarms inactive and the FE image is inactive
\* with its water alert inactive.  (The v2.0 image, the only one that
\* stops on the duration, keeps no water alarm flags.)
C10_StopClearsAlarms ==
    /\ (fw = "oled" /\ pc = "body" /\ msg.topic = TPC_CONTROL_STOP) =>
         (/\ oled.session_stopped /\ ~oled.session_running
          /\ AllWaterOff(oled.water_active))
    /\ (fw = "fe" /\ pc = "body" /\ msg.topic = TPC_CONTROL_STOP) =>
         (~fe.systemActive /\ ~fe.waterAlertActive)

\* A Stop command has just been handled by the OLED image.
C10_Witness ==
    /\ fw = "oled" /\ pc = "body" /\ msg = StopCmd
    /\ oled.session_stopped /\ AllWaterOff(oled.water_active)

ResetCmd == Msg(TPC_CONTROL_RESET, P_RESET)

\* The transport step of image f hands a Stop or a Reset command to the
\* callback (a Reset restarts the v2.0 and FE images, so the step ends at
\* the top of loop() again).
C11_HandlesStopOrReset(f) ==
    /\ fw = f /\ pc = "io"
    /\ msg' \in {StopCmd, ResetCmd}
    /\ (msg' = ResetCmd /\ f \in {"fixed", "fe"}) \/ pc' = "body"

C11_Step ==
    /\ C11_HandlesStopOrReset("oled") =>
         /\ oled'.cfg_duration_min = oled.cfg_duration_min
         /\ oled'.cfg_break_interval_min = oled.cfg_break_interval_min
         /\ oled'.cfg_break_length_min = oled.cfg_break_length_min
         /\ oled'.cfg_water_on = oled.cfg_water_on
         /\ oled'.cfg_ready = oled.cfg_ready
    /\ (C11_HandlesStopOrReset("fixed") /\ fixed.connected) =>
         /\ fixed'.studyDuration = fixed.studyDuration
         /\ fixed'.breakInterval = fixed.breakInterval
         /\ fixed'.breakLength = fixed.breakLength
         /\ fixed'.waterReminderEnabled = fixed.waterReminderEnabled
         /\ fixed'.configReady = fixed.configReady
    /\ (C11_HandlesStopOrReset("fe") /\ fe'.connected) =>
         /\ fe'.studyDuration = fe.studyDuration
         /\ fe'.breakInterval = fe.breakInterval
         /\ fe'.breakLength = fe.breakLength
         /\ fe'.waterReminderEnabled = fe.waterReminderEnabled
         /\ fe'.configReceived = fe.configReceived

\* C11: handling a Stop command or a Reset command leaves the duration,
\* the break interval, the break length, the water-reminder switch and the
\* readiness flag as they were.
C11_StopResetKeepConfig ==
    [][C11_Step]_vars

\* The publications o hold one on an environment topic.
EnvPublished(o) ==
    \E i \in 1..Len(o) :
      o[i].topic \in {"swsc/alert/environment", "swsc/status/environment"}

\* The body step of the v2.0 image takes a sensor sample.
F_Samples ==
    /\ EndsIteration("fixed") /\ fixed.active
    /\ fixed.now - fixed.lastSensorRead >= SENSOR_READ_INTERVAL

\* The body step of the FE image takes a sensor sample.
E_Samples ==
    EndsIteration("fe") /\ fe.systemActive

C12_Step ==
    /\ (F_Samples /\ fixed'.environmentStatus = fixed.environmentStatus)
         => ~EnvPublished(out')
    /\ (E_Samples /\ fe'.environmentStatus = fe.environmentStatus)
         => ~EnvPublished(out')

\* C12: a loop() iteration whose sample gets the label the previous sample
\* got publishes nothing on alert/environment nor on status/environment.
C12_SameLabelNoPublication ==
    [][C12_Step]_vars

IsEnvPub(p) ==
    p.topic \in {"swsc/alert/environment", "swsc/status/environment"}

\* The payloads published on the environment topics, in order.
EnvPayloads(o) ==
    LET e == SelectSeq(o, IsEnvPub)
    IN  [i \in 1..Len(e) |-> e[i].payload]

\* The stored sample of the v2.0 image has temperature t with humidity and
\* light in range.
C13_FixedSample(s, t) ==
    /\ s.temperature = t
    /\ s.humidity >= HUM_MIN /\ s.humidity <= HUM_MAX
    /\ s.lightValue >= LIGHT_MIN /\ s.lightValue <= LIGHT_MAX

\* The stored sample of the FE image has temperature t with humidity in
\* range and the light sensor reporting light.
C13_FeSample(s, t) ==
    /\ s.currentTemp = t
    /\ s.currentHumidity >= HUMIDITY_MIN /\ s.currentHumidity <= HUMIDITY_MAX
    /\ s.currentLight = 1000

C13_Step ==
    /\ (F_Samples /\ fixed.connected) =>
         /\ (fixed.lastSensorRead = 0 /\ C13_FixedSample(fixed', 320))
              => EnvPayloads(out') = <<"Too Hot">>
         /\ (fixed.lastSensorRead > 0 /\ C13_FixedSample(fixed, 320)
               /\ C13_FixedSample(fixed', 320))
              => EnvPayloads(out') = <<>>
         /\ (fixed.lastSensorRead > 0 /\ C13_FixedSample(fixed, 320)
               /\ C13_FixedSample(fixed', 250))
              => EnvPayloads(out') = <<"Ideal">>
         /\ (fixed.lastSensorRead > 0 /\ C13_FixedSample(fixed, 250)
               /\ C13_FixedSample(fixed', 250))
              => EnvPayloads(out') = <<>>
    /\ (E_Samples /\ fe.connected) =>
         /\ (fe.environmentStatus = "Waiting..." /\ C13_FeSample(fe', 320))
              => EnvPayloads(out') \in
                   { <<"PANAS!">>, <<"Temperature too high!", "PANAS!">> }
         /\ (fe.environmentStatus # "Waiting..." /\ C13_FeSample(fe, 320)
               /\ C13_FeSample(fe', 320))
              => EnvPayloads(out') = <<>>
         /\ (fe.environmentStatus # "Waiting..." /\ C13_FeSample(fe, 320)
               /\ C13_FeSample(fe', 250))
              => EnvPayloads(out') = <<"Ideal">>
         /\ (fe.environmentStatus # "Waiting..." /\ C13_FeSample(fe, 250)
               /\ C13_FeSample(fe', 250))
              => EnvPayloads(out') = <<>>

\* C13: with humidity and light in range throughout, the first sample of
\* 32 degrees publishes the hot label on the environment topics (the FE
\* image may send its alert text along with it), every further sample of 32 degrees publishes nothing there, the
\* first sample of 25 degrees after them publishes Ideal and nothing else,
\* and every further sample of 25 degrees publishes nothing: two
\* environment publications in total, hot and then Ideal.
C13_HotThenIdealTwoPublications ==
    [][C13_Step]_vars

\* The label the fixed priority order gives: temperature high, temperature
\* low, humidity high or low, light low, light high, else ideal.
C14_Class(hot, cold, humid, dry, dark, bright) ==
    IF hot THEN "hot"
    ELSE IF cold THEN "cold"
    ELSE IF humid THEN "humid"
    ELSE IF dry THEN "dry"
    ELSE IF dark THEN "dark"
    ELSE IF bright THEN "bright"
    ELSE "ideal"

\* What a label text of the v2.0 image or of the FE image stands for.
C14_Meaning(label) ==
    CASE label \in {"Too Hot", "PANAS!"} -> "hot"
      [] label \in {"Too Cold", "Dingin"} -> "cold"
      [] label \in {"Too Humid", "Lembab"} -> "humid"
      [] label \in {"Too Dry", "Kering"} -> "dry"
      [] label \in {"Too Dark", "Gelap"} -> "dark"
      [] label \in {"Too Bright", "Terang"} -> "bright"
      [] label = "Ideal" -> "ideal"
      [] OTHER -> "none"

C14_Step ==
    /\ F_Samples =>
         C14_Meaning(fixed'.environmentStatus) =
           C14_Class(fixed'.temperature > TEMP_MAX,
                     fixed'.temperature < TEMP_MIN,
                     fixed'.humidity > HUM_MAX,
                     fixed'.humidity < HUM_MIN,
                     fixed'.lightValue < LIGHT_MIN,
                     fixed'.lightValue > LIGHT_MAX)
    /\ (E_Samples /\ fe'.currentTemp # 0) =>
         C14_Meaning(fe'.environmentStatus) =
           C14_Class(fe'.currentTemp > TEMP_MAX,
                     fe'.currentTemp < TEMP_MIN,
                     fe'.currentHumidity > HUMIDITY_MAX,
                     fe'.currentHumidity < HUMIDITY_MIN,
                     fe'.currentLight = 0,
                     FALSE)

\* C14: after every sample with valid readings the environment label is
\* the one of the first matching rule in the order temperature high,
\* temperature low, humidity high or low, light low, light high, else
\* Ideal.
C14_LabelByFixedPriority ==
    [][C14_Step]_vars

\* C15: in every reachable state in which the rest of loop() is about to
\* take a sample, a sample whose temperature read fails (whatever the
\* humidity and light readings are) leaves the environment label as it
\* was and publishes nothing on the environment topics.
C15_FailedReadKeepsLabel ==
    /\ (fw = "fixed" /\ pc = "body" /\ fixed.active
          /\ fixed.now - fixed.lastSensorRead >= SENSOR_READ_INTERVAL) =>
         \A h \in EnvHums \cup {NaN}, l \in EnvLdr :
           LET m == F_loopBody(Mach(fixed, <<>>, clock), NaN, h, l)
           IN  /\ m.st.environmentStatus = fixed.environmentStatus
               /\ ~EnvPublished(m.out)
    /\ (fw = "fe" /\ pc = "body" /\ fe.systemActive) =>
         \A h \in EnvHums \cup {NaN}, pinHigh \in BOOLEAN :
           LET m == E_loopBody(Mach(fe, <<>>, E_millis(clock)), NaN, h, pinHigh)
           IN  /\ m.st.environmentStatus = fe.environmentStatus
               /\ ~EnvPublished(m.out)

\* The highest-priority condition that holds: any active water alarm,
\* break in progress, stopped, running normally, waiting for config.
C16_Top(st) ==
    IF O_anyWater(st) THEN "water"
    ELSE IF st.in_break THEN "break"
    ELSE IF st.session_stopped THEN "stopped"
    ELSE IF st.session_running THEN "running"
    ELSE "waiting"

\* The state in which the highest-priority condition of st is the only one
\* that holds, with the blink bit of st.
C16_Only(st) ==
    LET top == C16_Top(st)
    IN  [st EXCEPT
          !.water_active = [i \in 0..(MAX_WATER_ALARMS - 1) |->
                              top = "water" /\ i = 0],
          !.in_break = (top = "break"),
          !.session_stopped = (top = "stopped"),
          !.session_running = (top = "running"),
          !.cfg_ready = IF top = "waiting" THEN st.cfg_ready ELSE TRUE]

\* C16: in every reachable state of the OLED image the status LED that
\* loop() chooses is the one it chooses when only the highest-priority
\* condition of the state holds (water alarm > break > stopped > running >
\* waiting for config) with the same blink bit, in the first variant of
\* the image and in its v2.2 variant.
C16_LedByPriority ==
    fw = "oled" =>
      LET m == Mach(oled, <<>>, clock)
          only == Mach(C16_Only(oled), <<>>, clock)
      IN  /\ O_loopLed(m).st.led = O_loopLed(only).st.led
          /\ O22_loopLed(m).st.led = O22_loopLed(only).st.led

\* The subscriptions of the running image.
C17_Subs ==
    CASE fw = "oled" -> oled.subs
      [] fw = "fixed" -> fixed.subs
      [] fw = "mini" -> mini.subs
      [] fw = "fe" -> fe.subs

\* The callback has just handled a message.
C17_MessageHandled ==
    pc = "body" /\ msg # NoMsg

\* C17 as stated: whenever a message has been handled, the subscriptions
\* of the connection hold the three patterns config/#, control/# and
\* alert/#.
C17_SubscribedToThreePatterns ==
    C17_MessageHandled =>
      {"swsc/config/#", "swsc/control/#", "swsc/alert/#"} \subseteq C17_Subs

\* C17 amended: whenever a message has been handled, the subscriptions of
\* the connection hold config/# and control/#, and hold either alert/# or
\* both of alert/break and alert/water (the FE image subscribes to the two
\* alert topics themselves).
C17_SubscribedBeforeMessages ==
    C17_MessageHandled =>
      /\ {"swsc/config/#", "swsc/control/#"} \subseteq C17_Subs
      /\ \/ "swsc/alert/#" \in C17_Subs
         \/ {"swsc/alert/break", "swsc/alert/water"} \subseteq C17_Subs

\* The FE image has lost its connection, connected again and handled a
\* Stop command in the same loop() iteration.
C17_Witness ==
    /\ fw = "fe" /\ C17_MessageHandled /\ msg = StopCmd
    /\ Len(out) = 2 /\ out[1].payload = "ready"
    /\ "swsc/alert/water" \in fe.subs

\* C18: the device is never inside a loop() iteration waiting for the
\* broker connection to come back: every iteration started while the
\* connection is down goes on to the phase timers and the actuator
\* output.
C18_NeverWaitsForConnection ==
    pc # "wait"

C19_DataTopics ==
    { "swsc/data/temperature", "swsc/data/humidity", "swsc/data/light",
      "swsc/data/elapsed", "swsc/data/progress" }

\* C19: every publication on status/system carries the retained flag and
\* every publication on data/temperature, data/humidity, data/light,
\* data/elapsed and data/progress does not.
C19_RetainedFlags ==
    \A i \in 1..Len(out) :
      /\ out[i].topic = "swsc/status/system" => out[i].retained
      /\ out[i].topic \in C19_DataTopics => ~out[i].retained

C20_Tokens ==
    { "ready", "active", "stopped", "completed", "waiting_for_config",
      "config_error" }

\* C20: every payload published on status/system is one of the six tokens
\* ready, active, stopped, completed, waiting_for_config, config_error.
C20_StatusTokens ==
    \A i \in 1..Len(out) :
      out[i].topic = "swsc/status/system" => out[i].payload \in C20_Tokens


\* The buzzer states at time ms in which an alert raised by the server
\* still sounds once updateBuzzer() has run.
C21_Sounding(ms) ==
    { b \in { F_waterAlertBuzzer(BuzzerBoot, t) :
                t \in {ms - TickMs, ms - 1, ms} } :
        updateBuzzer(b, ms).buzzerActive }

\* The loop() iteration in which checkWaterReminder() raises the local
\* reminder.
C21_Fires ==
    /\ EndsIteration("fixed") /\ fixed.active
    /\ fixed'.lastWaterCheck # fixed.lastWaterCheck

C21_Step ==
    C21_Fires =>
      /\ fixed'.lastWaterCheck = clock
      /\ F_checkWaterReminder(Mach(fixed, <<>>, clock)).st
           = [fixed EXCEPT !.lastWaterCheck = clock]
      /\ \A b \in C21_Sounding(clock) :
           F_triggerWaterAlertBuzzer(b, clock).buzzerActive

StatusPublished(o, s) ==
    \E i \in 1..Len(o) :
      o[i].topic = "swsc/status/system" /\ o[i].payload = s

C22_Step ==
    /\ (Handles("oled") /\ msg' = StopCmd) =>
         /\ ~oled'.session_running /\ ~oled'.in_break
         /\ oled'.session_stopped
         /\ StatusPublished(out', "stopped")
    /\ (Handles("fixed") /\ msg' = StopCmd) =>
         /\ ~fixed'.active /\ ~fixed'.onBreak
         /\ StatusPublished(out', "stopped")
    /\ (Handles("mini") /\ msg' = StopCmd) =>
         /\ ~mini'.running /\ ~mini'.in_break
         /\ StatusPublished(out', "stopped")

\* C22: in every state a Stop command leaves the machine stopped, with the
\* running flag and the on-break flag false, and publishes the token stopped
\* on status/system.
C22_StopYieldsStopped ==
    [][C22_Step]_vars

\* The status that matches the readiness flag, in the wording of either
\* image.
C23_Matching(ready) ==
    IF ready THEN {"ready", "Ready"}
    ELSE {"waiting_for_config", "Waiting for Config"}

LastStatus(o) ==
    LET idx == { i \in 1..Len(o) : o[i].topic = "swsc/status/system" }
    IN  IF idx = {} THEN ""
        ELSE o[CHOOSE i \in idx : \A j \in idx : j <= i].payload

\* The transport step of the v2.0 image in which a Reset command is handled
\* (the device restarts inside the handler).
C23_FixedReset ==
    /\ fw = "fixed" /\ pc = "io" /\ fixed.connected
    /\ msg' = ResetCmd /\ pc' = "io" /\ clock' = 0 /\ ticked'

C23_Step ==
    /\ (Handles("oled") /\ msg' = ResetCmd) =>
         /\ ~oled'.session_running /\ ~oled'.in_break
         /\ ~oled'.session_stopped
         /\ oled'.cfg_ready = oled.cfg_ready
         /\ LastStatus(out') \in C23_Matching(oled.cfg_ready)
    /\ C23_FixedReset =>
         /\ ~fixed'.active /\ ~fixed'.onBreak
         /\ fixed'.configReady = fixed.configReady
         /\ LastStatus(out') \in C23_Matching(fixed.configReady)

\* C23: in every state a Reset command clears the running, on-break and
\* stopped flags and leaves the machine ready when the configuration was
\* ready and waiting for configuration when it was not, and the status
\* published says which.
C23_ResetClearsPhase ==
    [][C23_Step]_vars

\* A decimal number, with or without a sign.
C24_Numeric(p) ==
    LET d == IF Len(p) > 0 /\ p[1] = "-" THEN Tail(p) ELSE p
    IN  Len(d) > 0 /\ \A i \in 1..Len(d) : IsDigit(d[i])

C24_KnownTopics ==
    { TPC_CONFIG_DURATION, TPC_CONFIG_BREAK_INTERVAL, TPC_CONFIG_BREAK_LENGTH,
      TPC_CONFIG_WATER_REM, TPC_CONTROL_START, TPC_CONTROL_STOP,
      TPC_CONTROL_RESET, TPC_ALERT_BREAK, TPC_ALERT_WATER }

\* A message of an unknown topic, or with a payload its topic does not
\* know.
C24_Malformed(x) ==
    \/ x.topic \notin C24_KnownTopics
    \/ x.topic = TPC_ALERT_BREAK /\ x.payload \notin {P_START, P_END}
    \/ /\ x.topic = TPC_ALERT_WATER
       /\ ~startsWith(x.payload, P_START \o <<":">>)
       /\ ~startsWith(x.payload, P_STOP \o <<":">>)
       /\ ~startsWith(x.payload, P_PING \o <<":">>)
    \/ /\ x.topic \in { TPC_CONFIG_DURATION, TPC_CONFIG_BREAK_INTERVAL,
                        TPC_CONFIG_BREAK_LENGTH }
       /\ ~C24_Numeric(x.payload)

C24_Step ==
    /\ (Handles("oled") /\ C24_Malformed(msg')) =>
         /\ oled'.cfg_duration_min = oled.cfg_duration_min
         /\ oled'.cfg_break_interval_min = oled.cfg_break_interval_min
         /\ oled'.cfg_break_length_min = oled.cfg_break_length_min
         /\ oled'.cfg_water_on = oled.cfg_water_on
         /\ oled'.cfg_ready = oled.cfg_ready
         /\ oled'.session_running = oled.session_running
         /\ oled'.in_break = oled.in_break
         /\ oled'.session_stopped = oled.session_stopped
         /\ oled'.water_active = oled.water_active
    /\ (Handles("fixed") /\ C24_Malformed(msg')) =>
         /\ fixed'.studyDuration = fixed.studyDuration
         /\ fixed'.breakInterval = fixed.breakInterval
         /\ fixed'.breakLength = fixed.breakLength
         /\ fixed'.waterReminderEnabled = fixed.waterReminderEnabled
         /\ fixed'.configReady = fixed.configReady
         /\ fixed'.active = fixed.active
         /\ fixed'.onBreak = fixed.onBreak
    /\ (Handles("mini") /\ C24_Malformed(msg')) =>
         /\ mini'.cfg_dur = mini.cfg_dur
         /\ mini'.cfg_break_int = mini.cfg_break_int
         /\ mini'.cfg_break_len = mini.cfg_break_len
         /\ mini'.cfg_ready = mini.cfg_ready
         /\ mini'.running = mini.running
         /\ mini'.in_break = mini.in_break

\* C24: a message of an unknown topic, or whose payload its topic does not
\* know (a break alert other than START and END, a water alert without
\* START:, STOP: or PING:, a configuration value that is not a number),
\* leaves the configuration, the phase flags and the water alarms as they
\* were.
C24_MalformedIgnored ==
    [][C24_Step]_vars

\* Whole minutes of the current phase that have elapsed.
PhaseElapsed ==
    (clock - fixed.intervalStartTime) \div 60000

BreakPublished(o, p) ==
    \E i \in 1..Len(o) : o[i].topic = "swsc/alert/break" /\ o[i].payload = p

\* A loop() iteration of a running session of the v2.0 image that does not
\* end the session, begun in Studying (brk = FALSE) or on break (brk = TRUE);
\* no message changes the phase inside a session of this image.
TimerEvaluation(brk) ==
    /\ EndsIteration("fixed") /\ fixed.active /\ fixed'.active
    /\ fixed.onBreak = brk

C25_Original ==
    TimerEvaluation(FALSE) =>
      /\ fixed'.onBreak <=> PhaseElapsed >= fixed.breakInterval
      /\ fixed'.onBreak =>
           /\ fixed'.intervalStartTime = clock
           /\ fixed.connected => BreakPublished(out', "START")

\* C25 as stated: while Studying the local timer moves the machine to
\* OnBreak at the first evaluation at which the elapsed phase time is at
\* least break_interval, and not before; the phase clock restarts and
\* alert/break START is published.
C25_BreakAtInterval ==
    [][C25_Original]_vars

C25_Step ==
    TimerEvaluation(FALSE) =>
      /\ fixed'.onBreak <=>
           (fixed.breakInterval > 0 /\ PhaseElapsed >= fixed.breakInterval)
      /\ fixed'.onBreak =>
           /\ fixed'.intervalStartTime = clock
           /\ fixed.connected => BreakPublished(out', "START")
      /\ ~fixed'.onBreak =>
           /\ fixed'.intervalStartTime = fixed.intervalStartTime
           /\ ~BreakPublished(out', "START")

\* C25 (amended): while Studying with a break_interval above zero, the
\* local timer moves the machine to OnBreak at the first evaluation at which
\* the elapsed phase time is at least break_interval, and not before; the
\* phase clock restarts and alert/break START is published.  With a
\* break_interval of zero or less the timer never starts a break.
C25_BreakAtPositiveInterval ==
    [][C25_Step]_vars

\* The local timer has started a break and published it.
C25_Witness ==
    /\ fw = "fixed" /\ pc = "io" /\ fixed.active /\ fixed.onBreak
    /\ fixed.intervalStartTime = clock
    /\ fixed.intervalStartTime # fixed.startTime
    /\ BreakPublished(out, "START")

C26_Step ==
    TimerEvaluation(TRUE) =>
      /\ ~fixed'.onBreak <=> PhaseElapsed >= fixed.breakLength
      /\ ~fixed'.onBreak =>
           /\ fixed'.intervalStartTime = clock
           /\ fixed.connected => BreakPublished(out', "END")

\* C26: while on break the local timer moves the machine back to Studying
\* at the first evaluation at which the elapsed phase time is at least
\* break_length, and not before; the phase clock restarts and alert/break
\* END is published.
C26_StudyAtBreakLength ==
    [][C26_Step]_vars

\* The loop() iteration of a session of the v2.0 image in which the whole
\* minutes since the start have reached the duration.
C27_DurationReached ==
    /\ EndsIteration("fixed") /\ fixed.active
    /\ fixed.studyDuration > 0
    /\ clock >= fixed.startTime
    /\ (clock - fixed.startTime) \div 60000 >= fixed.studyDuration

C27_Step ==
    C27_DurationReached =>
      /\ ~fixed'.active /\ ~fixed'.onBreak
      /\ fixed.connected => LastStatus(out') = "completed"

\* C27: when the time since the start reaches the duration while the
\* machine is Studying or on break, the machine stops, and the status left
\* on status/system when the transition is over is completed.
C27_CompletedIsLastStatus ==
    [][C27_Step]_vars

\* C28: once a Start has been accepted, with loop() running and the clock
\* advancing, the machine eventually stops, even if no Stop, Reset or
\* external alert ever arrives and the broker connection is lost, whatever
\* accepted duration, break interval and break length are configured.
C28_SessionTerminates ==
    (fw = "fixed" /\ fixed.active) ~> ~fixed.active

C29_ConfigTopics ==
    { TPC_CONFIG_DURATION, TPC_CONFIG_BREAK_INTERVAL, TPC_CONFIG_BREAK_LENGTH,
      TPC_CONFIG_WATER_REM }

\* Image f handles a configuration message.
C29_HandlesConfig(f) ==
    Handles(f) /\ msg'.topic \in C29_ConfigTopics

C29_Step ==
    /\ C29_HandlesConfig("oled") =>
         /\ msg'.topic = TPC_CONFIG_DURATION
              => oled'.cfg_duration_min = toInt(msg'.payload)
         /\ msg'.topic # TPC_CONFIG_DURATION
              => oled'.cfg_duration_min = oled.cfg_duration_min
         /\ msg'.topic = TPC_CONFIG_BREAK_INTERVAL
              => oled'.cfg_break_interval_min = toInt(msg'.payload)
         /\ msg'.topic # TPC_CONFIG_BREAK_INTERVAL
              => oled'.cfg_break_interval_min = oled.cfg_break_interval_min
         /\ msg'.topic = TPC_CONFIG_BREAK_LENGTH
              => oled'.cfg_break_length_min = toInt(msg'.payload)
         /\ msg'.topic # TPC_CONFIG_BREAK_LENGTH
              => oled'.cfg_break_length_min = oled.cfg_break_length_min
         /\ msg'.topic # TPC_CONFIG_WATER_REM
              => oled'.cfg_water_on = oled.cfg_water_on
         /\ oled'.session_running = oled.session_running
         /\ oled'.in_break = oled.in_break
         /\ oled'.session_stopped = oled.session_stopped
         /\ oled'.water_active = oled.water_active
    /\ C29_HandlesConfig("fixed") =>
         /\ msg'.topic = TPC_CONFIG_DURATION
              => fixed'.studyDuration = toInt(msg'.payload)
         /\ msg'.topic # TPC_CONFIG_DURATION
              => fixed'.studyDuration = fixed.studyDuration
         /\ msg'.topic = TPC_CONFIG_BREAK_INTERVAL
              => fixed'.breakInterval = toInt(msg'.payload)
         /\ msg'.topic # TPC_CONFIG_BREAK_INTERVAL
              => fixed'.breakInterval = fixed.breakInterval
         /\ msg'.topic = TPC_CONFIG_BREAK_LENGTH
              => fixed'.breakLength = toInt(msg'.payload)
         /\ msg'.topic # TPC_CONFIG_BREAK_LENGTH
              => fixed'.breakLength = fixed.breakLength
         /\ msg'.topic # TPC_CONFIG_WATER_REM
              => fixed'.waterReminderEnabled = fixed.waterReminderEnabled
         /\ fixed'.active = fixed.active
         /\ fixed'.onBreak = fixed.onBreak
         /\ fixed'.startTime = fixed.startTime
         /\ fixed'.intervalStartTime = fixed.intervalStartTime
         /\ fixed'.lastWaterCheck = fixed.lastWaterCheck

\* C29: handling one configuration message changes the one configuration
\* field its topic names (and the readiness flag derived from the fields)
\* and leaves the other three fields, the phase flags and the water alarms
\* as they were.
C29_ConfigChangesOneField ==
    [][C29_Step]_vars

\* A break length has just been stored in the OLED image while a session
\* was on break with a water alarm active, after an earlier session had
\* been given other configuration values.
C29_Witness ==
    /\ fw = "oled" /\ pc = "body"
    /\ msg.topic = TPC_CONFIG_BREAK_LENGTH
    /\ oled.cfg_break_length_min = toInt(msg.payload)
    /\ oled.cfg_duration_min = 25
    /\ oled.in_break
    /\ \E i \in 0..(MAX_WATER_ALARMS - 1) : oled.water_active[i]

ReadyPublished(o) ==
    StatusPublished(o, "Ready") \/ StatusPublished(o, "ready")

C30_Step ==
    /\ C29_HandlesConfig("oled") =>
         LET newly == ~oled.cfg_ready /\ oled'.cfg_ready
                        /\ ~oled.session_running
         IN  /\ newly => (ReadyPublished(out') /\ ~oled'.session_running)
             /\ ~newly =>
                  /\ ~ReadyPublished(out')
                  /\ oled'.session_running = oled.session_running
                  /\ oled'.in_break = oled.in_break
                  /\ oled'.session_stopped = oled.session_stopped
    /\ C29_HandlesConfig("fixed") =>
         LET newly == ~fixed.configReady /\ fixed'.configReady
                        /\ ~fixed.active
         IN  /\ newly => (ReadyPublished(out') /\ ~fixed'.active)
             /\ ~newly =>
                  /\ ~ReadyPublished(out')
                  /\ fixed'.active = fixed.active
                  /\ fixed'.onBreak = fixed.onBreak

\* C30: a configuration update that turns the readiness flag from false to
\* true while no session runs leaves the machine ready and announces it; an
\* update that leaves the flag as it was, or arrives while a session runs,
\* changes no phase flag and announces nothing.
C30_ReadyAnnouncedOnce ==
    [][C30_Step]_vars

\* The v2.0 image tries to connect in this transport step (one call of
\* reconnectMQTT(), stamped in lastMqttReconnect).
C31_FixedAttempt ==
    /\ fw = "fixed" /\ pc = "io" /\ pc' = "body" /\ ~fixed.connected
    /\ \/ fixed'.connected
       \/ fixed'.lastMqttReconnect # fixed.lastMqttReconnect

\* The FE image tries to connect: the broker refuses (the device enters or
\* stays in the retry loop) or accepts (the device leaves reconnectMQTT()).
C31_FeAttempt ==
    /\ fw = "fe" /\ ~fe.connected
    /\ \/ pc = "io" /\ pc' = "wait"
       \/ pc \in {"io", "wait"} /\ fe'.connected

C31_Step ==
    /\ C31_FixedAttempt =>
         /\ clock - fixed.lastMqttReconnect >= MQTT_RECONNECT_INTERVAL
         /\ fixed'.lastMqttReconnect = clock
    /\ C31_FeAttempt => pc = "io"

\* C31: while disconnected, a connection attempt comes no sooner than the
\* reconnect interval after the one before it, and a loop() iteration makes
\* at most one attempt: an attempt is never made from inside the retry of
\* an earlier attempt of the same iteration.
C31_ReconnectRateLimited ==
    [][C31_Step]_vars

C32_Step ==
    /\ Handles("fixed") => F_handlerDelay(fixed, msg') = 0
    /\ Handles("oled") => O_handlerDelay(oled, msg') = 0

\* C32: no handler reached from loop() sleeps: handling a Start, a Stop, a
\* break alert or a water alert executes no blocking delay, so message
\* processing and actuator evaluation are never held up.
C32_HandlersNeverSleep ==
    [][C32_Step]_vars

\* The blink period of the three images, in milliseconds.
BlinkPeriod == LED_BLINK_INTERVAL

C33_Step ==
    /\ EndsIteration("oled") =>
         (oled'.led_state # oled.led_state
            <=> clock - oled.lastBlinkMs >= BlinkPeriod)
    /\ Handles("oled") =>
         (oled'.led_state = oled.led_state
            /\ oled'.lastBlinkMs = oled.lastBlinkMs)
    /\ EndsIteration("fixed") =>
         (fixed'.ledBlinkState # fixed.ledBlinkState
            <=> fixed.now - fixed.lastLedBlink >= BlinkPeriod)
    /\ Handles("fixed") =>
         (fixed'.ledBlinkState = fixed.ledBlinkState
            /\ fixed'.lastLedBlink = fixed.lastLedBlink)
    /\ EndsIteration("fe") =>
         (fe'.ledBlue # fe.ledBlue
            <=> E_millis(clock) - fe.lastLedBlink >= BlinkPeriod)

\* C33: in every phase the blink bit toggles in a loop() iteration exactly
\* when at least 500 ms have passed since its last toggle, and no handler
\* touches the bit or its time stamp.
C33_BlinkEvery500ms ==
    [][C33_Step]_vars

\* C34: in every reachable state of the OLED image, after any sequence of
\* Start, Stop, Reset, configuration and alert messages, session_running
\* and session_stopped are not both true.
C34_RunningStoppedExclusive ==
    fw = "oled" => ~(oled.session_running /\ oled.session_stopped)

\* A Stop has just been handled in a configured machine: the session is
\* stopped and no longer runs.
C34_Witness ==
    /\ fw = "oled" /\ pc = "body" /\ msg = StopCmd
    /\ oled.cfg_ready /\ clock > 0
    /\ oled.session_stopped /\ ~oled.session_running

\* C35: in every reachable state the on-break flag is true only while a
\* session runs: a break alert received while waiting for configuration,
\* ready or stopped does not put the machine on break.
C35_OnBreakOnlyWhileRunning ==
    /\ fw = "oled" => (oled.in_break => oled.session_running)
    /\ fw = "mini" => (mini.in_break => mini.running)

\* C36: a Start command handled while a configured session already runs
\* (studying or on break) restarts it as a Start from Ready would: the
\* session stays running, the session clock, the phase clock and the water
\* clock read 0 at the handler's millis(), the on-break flag is cleared and
\* every water alarm is cleared.
C36_Step ==
    /\ (Handles("fixed") /\ msg' = StartCmd /\ fixed.connected
          /\ fixed.configReady /\ fixed.studyDuration # 0 /\ fixed.active)
         => /\ fixed'.active /\ ~fixed'.onBreak
            /\ clock' - fixed'.startTime = 0
            /\ clock' - fixed'.intervalStartTime = 0
            /\ clock' - fixed'.lastWaterCheck = 0
            /\ fixed'.currentPhase = "Study"
            /\ StatusPublished(out', "active")
    /\ (Handles("oled") /\ msg' = StartCmd
          /\ oled.cfg_ready /\ oled.session_running)
         => /\ oled'.session_running /\ ~oled'.in_break
            /\ ~oled'.session_stopped
            /\ \A i \in 0..(MAX_WATER_ALARMS - 1) : ~oled'.water_active[i]
            /\ StatusPublished(out', "Running")

C36_StartRestartsSession == [][C36_Step]_vars

\* A Start has just been handled by the OLED image whose LED still shows the
\* steady green that the previous iteration chose for a running session.
C36_Witness ==
    /\ fw = "oled" /\ pc = "body" /\ msg = StartCmd
    /\ oled.led = <<FALSE, TRUE, FALSE>>
    /\ oled.cfg_ready /\ oled.session_running /\ ~oled.in_break

\* The first status published in a step.
FirstStatus(o) ==
    LET idx == { i \in 1..Len(o) : o[i].topic = "swsc/status/system" }
    IN  IF idx = {} THEN ""
        ELSE o[CHOOSE i \in idx : \A j \in idx : i <= j].payload

\* The status that names the phase each image is in.
C37_OledPhase(s) ==
    IF ~s.cfg_ready THEN "Waiting for Config"
    ELSE IF s.session_running
      THEN (IF s.in_break THEN "Break" ELSE "Running")
    ELSE IF s.session_stopped THEN "Stopped"
    ELSE "Ready"

\* C37: whenever a broker connection is established, the status published
\* on status/system for it names the phase the device is in at that moment:
\* waiting for configuration while not ready, ready when configured and
\* idle, the running or break status during a session, stopped when stopped.
C37_Step ==
    /\ (fw = "oled" /\ ~oled.connected /\ oled'.connected)
         => FirstStatus(out') = C37_OledPhase(oled)
    /\ (fw = "fixed" /\ pc = "io" /\ ~fixed.connected /\ fixed'.connected)
         => (FirstStatus(out') = "ready"
               <=> fixed.configReady /\ fixed.studyDuration > 0
                     /\ ~fixed.active)
    /\ (fw = "fe" /\ ~fe.connected /\ fe'.connected)
         => (FirstStatus(out') = "ready"
               <=> fe.configReceived /\ ~fe.systemActive)

C37_ConnectStatusIsPhase == [][C37_Step]_vars

\* C38: with break_interval = 0 the local timer of the v2.0 image never
\* starts a break, whatever the session duration and the elapsed time; with
\* break_length = 0 a break the local timer entered ends at the very next
\* timer evaluation.
C38_Step ==
    /\ (TimerEvaluation(FALSE) /\ fixed.breakInterval = 0)
         => /\ ~fixed'.onBreak
            /\ ~BreakPublished(out', "START")
    /\ (TimerEvaluation(TRUE) /\ fixed.breakLength = 0)
         => /\ ~fixed'.onBreak
            /\ fixed'.currentPhase = "Study"
            /\ fixed'.intervalStartTime = clock
            /\ BreakPublished(out', "END")

C38_ZeroBreakSettings == [][C38_Step]_vars

\* A break of length 0 has just been ended by the timer evaluation that
\* follows the one which started it.
C38_Witness ==
    /\ fw = "fixed" /\ pc = "io" /\ fixed.active /\ ~fixed.onBreak
    /\ fixed.breakLength = 0 /\ fixed.breakInterval = 10
    /\ fixed.intervalStartTime = clock
    /\ fixed.intervalStartTime # fixed.startTime
    /\ BreakPublished(out, "END")

\* C39: while the water reminder is switched off, no water alarm becomes
\* active: a step that begins and ends with the switch off raises no alarm,
\* whether an alert/water START arrives or the local interval elapses.
C39_Step ==
    /\ (fw = "oled" /\ ~oled.cfg_water_on /\ ~oled'.cfg_water_on)
         => \A i \in 0..(MAX_WATER_ALARMS - 1) :
              oled'.water_active[i] => oled.water_active[i]
    /\ (fw = "fe" /\ ~fe.waterReminderEnabled /\ ~fe'.waterReminderEnabled)
         => (fe'.waterAlertActive => fe.waterAlertActive)
    /\ (fw = "fixed" /\ ~fixed.waterReminderEnabled
          /\ ~fixed'.waterReminderEnabled /\ fixed.active /\ fixed'.active)
         => (fixed'.lastWaterCheck # fixed.lastWaterCheck
               => msg' = StartCmd)

C39_NoWaterAlarmWhileDisabled == [][C39_Step]_vars

\* C40: with a negative break_length configured, a break the local timer of
\* the v2.0 image entered ends at the next timer evaluation, the comparison
\* of the elapsed phase minutes with break_length holding already at 0.
C40_Step ==
    (TimerEvaluation(TRUE) /\ fixed.breakLength < 0)
      => /\ ~fixed'.onBreak
         /\ BreakPublished(out', "END")

C40_NegativeLengthEndsBreak == [][C40_Step]_vars

====
